---- MODULE Spec2Model ----
(***************************************************************************)
(* A model of Contour's status commit path (internal/status), of the       *)
(* debounced DAG rebuild scheduler, of the snapshot cache with its         *)
(* observers, of the GatewayAPIProcessor (internal/dag), of the Envoy,     *)
(* Gateway and Namespace reconcilers with the errors they hand back, of    *)
(* the Service of an Envoy with the comparisons of internal/equality, of   *)
(* the validation of Envoy, Gateway listeners and GatewayClass, and of the *)
(* finalizers and the status conditions the reconcilers keep on an object. *)
(***************************************************************************)
EXTENDS Integers, Sequences, FiniteSets, TLC

VARIABLES
    \* ---- status: one Envoy object and the updates staged against it ----
    envoyGeneration,   \* metadata.generation of the stored Envoy
    envoyConditions,   \* envoy.Status.Conditions, a list
    wallClock,         \* time.Now()
    updates,           \* the EnvoyUpdates handed out by EnvoyAccessor
    envoyUpdates,      \* Cache.envoyUpdates[fullname]: id of the pending update, or 0
    lastMutate,        \* history: the last Mutate call (its input and its update)
    appliedLog,        \* history: ids of the updates Mutate was applied for, in order
    \* ---- the debounced recomputation scheduler (contour.EventHandler) ----
    sched,             \* "Idle", "Holding" or "Draining"
    clock,             \* time in milliseconds
    shortDeadline,     \* when the short holdoff timer fires (Holding)
    maxDeadline,       \* when the maximum holdoff timer fires (Holding)
    received,          \* notifications received so far, numbered 1..received
    hold,              \* the open window: its first notification, when it opened
    queued,            \* notifications that arrived during Draining
    running,           \* DAG rebuilds executing now
    rebuildCount,      \* DAG rebuilds started so far
    lastRebuild,       \* history: the last rebuild started, what it covers
    lastArrival,       \* history: arrival time of the last notification
    burst,             \* history: the burst the last notification belongs to
    \* ---- DAG builder, snapshot cache and observers ----
    resourceCache,     \* the resources the Resource Cache holds
    dirty,             \* a notification arrived since the last build started
    phase,             \* "idle", "building" or "publishing"
    build,             \* the build in progress: its input, its graph so far
    buildCount,        \* builds started so far
    publishedDag,      \* the DAG of the last OnNewDAG
    snapshotVersion,   \* the version counter of the snapshot cache
    collections,       \* per collection type: its version and resources
    nextObserver,      \* position in the observer list during a publish
    invoked,           \* history: the observers invoked by the last publish
    seen,              \* history: per observer, what it was handed
    publishLog,        \* history: every snapshot committed
    \* ---- GatewayAPIProcessor: which HTTPRoutes a Gateway selects ----
    fltListeners,      \* gateway.Spec.Listeners: the Routes.Selector of each
    fltLabels,         \* route.Labels of the HTTPRoute under consideration
    fltResult,         \* what the listener loop of Run decided for it
    \* ---- GatewayAPIProcessor.Run: from the cache to the DAG ----
    gateway,           \* p.source.gateway
    pc,                \* where Run is: "idle", "start", "filter", "compute", "done"
    filtered,          \* HTTPRoutes of the cache the first loop has looked at
    validRoutes,       \* the HTTPRoutes selected by a listener
    cur,               \* the valid route computeHTTPRoute is working on, the rules read
    pdag,              \* p.dag: per VirtualHost, its Routes
    dagAtStart,        \* history: the DAG Run was handed
    step,              \* history: the last step of Run and what it recorded
    \* ---- reconcilers, validation and the errors they hand back ----
    call,              \* the last call: what it was handed, what it returned and did
    \* ---- the service comparisons of internal/equality ----
    cmp,               \* one comparison: function, current, expected, results
    \* ---- the Service of one Envoy in the object store ----
    svcEnvoy,          \* the Envoy being reconciled, <<>> before it is read
    svcStore,          \* the Service stored under the Envoy's key: <<>> or <<svc>>
    svcLast,           \* history: the last run against the store
    svcRuns,           \* number of runs made so far
    \* ---- validation of Envoy, Gateway and GatewayClass ----
    vcall,             \* one validation call: its input and its result
    \* ---- the metadata and status of one reconciled Envoy or Gateway ----
    obj,               \* the stored object, once read: finalizers, conditions
    objLast            \* history: the last reconcile of it and the calls it made

statusVars == <<envoyGeneration, envoyConditions, wallClock, updates,
                envoyUpdates, lastMutate, appliedLog>>

schedVars == <<sched, clock, shortDeadline, maxDeadline, received, hold,
               queued, running, rebuildCount, lastRebuild, lastArrival, burst>>

snapVars == <<resourceCache, dirty, phase, build, buildCount, publishedDag,
              snapshotVersion, collections, nextObserver, invoked, seen, publishLog>>

fltVars == <<fltListeners, fltLabels, fltResult>>

dagVars == <<gateway, pc, filtered, validRoutes, cur, pdag, dagAtStart, step>>

recVars == <<call>>

eqVars == <<cmp>>

svcVars == <<svcEnvoy, svcStore, svcLast, svcRuns>>

valVars == <<vcall>>

objVars == <<obj, objLast>>

vars == <<statusVars, schedVars, snapVars, fltVars, dagVars, recVars, eqVars,
          svcVars, valVars, objVars>>

\* What the actions of one component leave alone.
nonStatusVars == <<schedVars, snapVars, fltVars, dagVars, recVars,
      eqVars, svcVars, valVars, objVars>>
nonSchedVars == <<statusVars, snapVars, fltVars, dagVars, recVars,
      eqVars, svcVars, valVars, objVars>>
nonSnapVars == <<statusVars, schedVars, fltVars, dagVars, recVars,
      eqVars, svcVars, valVars, objVars>>
nonFltVars == <<statusVars, schedVars, snapVars, dagVars, recVars,
      eqVars, svcVars, valVars, objVars>>
nonDagVars == <<statusVars, schedVars, snapVars, fltVars, recVars,
      eqVars, svcVars, valVars, objVars>>
nonRecVars == <<statusVars, schedVars, snapVars, fltVars, dagVars,
      eqVars, svcVars, valVars, objVars>>
nonEqVars == <<statusVars, schedVars, snapVars, fltVars, dagVars, recVars,
      svcVars, valVars, objVars>>
nonSvcVars == <<statusVars, schedVars, snapVars, fltVars, dagVars, recVars,
      eqVars, valVars, objVars>>
nonValVars == <<statusVars, schedVars, snapVars, fltVars, dagVars, recVars,
      eqVars, svcVars, objVars>>
nonObjVars == <<statusVars, schedVars, snapVars, fltVars, dagVars, recVars,
      eqVars, svcVars, valVars>>

----------------------------------------------------------------------------
\* Bounds of the status model.
MaxUpdates == 2
MaxGeneration == 2

\* contour_api_v1alpha1.EnvoyAvailableConditionType
available == "Available"

CondTypes == {available, "Ready"}
ConditionStatuses == {"True", "False"}

NoCondition == [type |-> "none"]
NoMutate == [eu |-> 0]

UpdateIds == 1..MaxUpdates

\* An EnvoyUpdate that EnvoyAccessor has not handed out yet.
FreeUpdate ==
    [phase |-> "free", Generation |-> 0, TransitionTime |-> 0,
     Conditions |-> [t \in CondTypes |-> NoCondition]]

\* All orders in which a Go map with key set S can be ranged over.
Orderings(S) ==
    {f \in [1..Cardinality(S) -> S] : \A i, j \in 1..Cardinality(S) : i # j => f[i] # f[j]}

----------------------------------------------------------------------------
\* EnvoyStatus.GetConditionFor: the index of the stored condition of type
\* condType, 0 for nil.
GetConditionFor(conds, condType) ==
    IF \E i \in 1..Len(conds) : conds[i].type = condType
    THEN CHOOSE i \in 1..Len(conds) :
            /\ conds[i].type = condType
            /\ \A j \in 1..(i - 1) : conds[j].type # condType
    ELSE 0

\* EnvoyUpdate.ConditionFor, the branch that builds a new condition.
NewCondition(eu, condType) ==
    IF condType = available
    THEN [type |-> condType, status |-> "True", reason |-> "EnvoyAvailable",
          message |-> "At least 1 envoy pod is reporting ready",
          observedGeneration |-> eu.Generation, lastTransitionTime |-> 0]
    ELSE [type |-> condType, status |-> "False", reason |-> "",
          message |-> "",
          observedGeneration |-> eu.Generation, lastTransitionTime |-> 0]

\* The first two statements of Mutate's loop body: the staged condition as it
\* is compared and copied.
Stamped(eu, condType) ==
    [eu.Conditions[condType] EXCEPT !.observedGeneration = eu.Generation,
                                    !.lastTransitionTime = eu.TransitionTime]

\* A Mutate loop body without the staleness guard.
MutateCondition_NoGuard(eu, conds, condType) ==
    LET cond == Stamped(eu, condType)
        i == GetConditionFor(conds, condType)
    IN  IF i = 0 THEN Append(conds, cond) ELSE [conds EXCEPT ![i] = cond]

\* A Mutate loop body whose staleness comparison is inverted.
MutateCondition_Inverted(eu, conds, condType) ==
    LET cond == Stamped(eu, condType)
        i == GetConditionFor(conds, condType)
    IN  IF i = 0 THEN Append(conds, cond)
        ELSE IF conds[i].observedGeneration < cond.observedGeneration THEN conds
        ELSE [conds EXCEPT ![i] = cond]

\* One iteration of Mutate's loop over eu.Conditions.
MutateCondition(eu, conds, condType) ==
    LET cond == Stamped(eu, condType)
        i == GetConditionFor(conds, condType)
    IN  IF i = 0 THEN Append(conds, cond)
        ELSE IF conds[i].observedGeneration > cond.observedGeneration THEN conds
        ELSE [conds EXCEPT ![i] = cond]

RECURSIVE MutateLoop(_, _, _)
MutateLoop(eu, conds, order) ==
    IF order = <<>> THEN conds
    ELSE MutateLoop(eu, MutateCondition(eu, conds, Head(order)), Tail(order))

\* The condition types an update has staged (the keys of eu.Conditions).
Staged(eu) == {t \in CondTypes : eu.Conditions[t] # NoCondition}

\* EnvoyUpdate.Mutate on the stored conditions, ranging over the map in `order`.
Mutate(eu, conds, order) == MutateLoop(eu, conds, order)

----------------------------------------------------------------------------
StatusInit ==
    /\ envoyGeneration = 1
    /\ envoyConditions = <<>>
    /\ wallClock = 1
    /\ updates = [u \in UpdateIds |-> FreeUpdate]
    /\ envoyUpdates = 0
    /\ lastMutate = NoMutate
    /\ appliedLog = <<>>

\* The Envoy's spec is edited: the object store bumps metadata.generation.
SpecEdited ==
    /\ envoyGeneration < MaxGeneration
    /\ \E u \in UpdateIds : updates[u].phase = "free"
    /\ envoyGeneration' = envoyGeneration + 1
    /\ UNCHANGED <<envoyConditions, wallClock, updates, envoyUpdates, lastMutate, appliedLog>>
    /\ UNCHANGED nonStatusVars

\* Cache.EnvoyAccessor for the Envoy as a reconcile has just read it. Time
\* passes between two calls: every update gets a later time.Now().
EnvoyAccessor(u) ==
    /\ updates[u].phase = "free"
    /\ \A v \in UpdateIds : v < u => updates[v].phase # "free"
    /\ updates' = [updates EXCEPT ![u] =
            [phase |-> "staging", Generation |-> envoyGeneration,
             TransitionTime |-> wallClock,
             Conditions |-> [t \in CondTypes |-> NoCondition]]]
    /\ wallClock' = wallClock + 1
    /\ UNCHANGED <<envoyGeneration, envoyConditions, envoyUpdates, lastMutate, appliedLog>>
    /\ UNCHANGED nonStatusVars

\* EnvoyUpdate.ConditionFor; the caller may then set the status of the
\* condition it got back.
ConditionFor(u, condType, st) ==
    /\ updates[u].phase = "staging"
    /\ LET eu == updates[u]
           c == IF eu.Conditions[condType] = NoCondition
                THEN NewCondition(eu, condType)
                ELSE eu.Conditions[condType]
       IN  updates' = [updates EXCEPT ![u].Conditions[condType] = [c EXCEPT !.status = st]]
    /\ UNCHANGED <<envoyGeneration, envoyConditions, wallClock, envoyUpdates, lastMutate, appliedLog>>
    /\ UNCHANGED nonStatusVars

\* The commit function EnvoyAccessor returned: Cache.commitEnvoy.
commitEnvoy(u) ==
    /\ updates[u].phase = "staging"
    /\ IF Staged(updates[u]) = {}
       THEN /\ updates' = [updates EXCEPT ![u].phase = "dropped"]
            /\ UNCHANGED envoyUpdates
       ELSE /\ updates' = [v \in UpdateIds |->
                    IF v = u THEN [updates[v] EXCEPT !.phase = "committed"]
                    ELSE IF v = envoyUpdates THEN [updates[v] EXCEPT !.phase = "overwritten"]
                    ELSE updates[v]]
            /\ envoyUpdates' = u
    /\ UNCHANGED <<envoyGeneration, envoyConditions, wallClock, lastMutate, appliedLog>>
    /\ UNCHANGED nonStatusVars

\* The status updater takes the pending update of the cache and writes
\* Mutate(stored object) back to the object store.
StatusUpdate ==
    /\ envoyUpdates # 0
    /\ LET eu == updates[envoyUpdates]
       IN  \E order \in Orderings(Staged(eu)) :
              /\ envoyConditions' = Mutate(eu, envoyConditions, order)
              /\ lastMutate' = [eu |-> envoyUpdates, before |-> envoyConditions]
    /\ updates' = [updates EXCEPT ![envoyUpdates].phase = "applied"]
    /\ appliedLog' = Append(appliedLog, envoyUpdates)
    /\ envoyUpdates' = 0
    /\ UNCHANGED <<envoyGeneration, wallClock>>
    /\ UNCHANGED nonStatusVars

StatusNext ==
    \/ SpecEdited
    \/ \E u \in UpdateIds : EnvoyAccessor(u)
    \/ \E u \in UpdateIds, t \in CondTypes, st \in ConditionStatuses : ConditionFor(u, t, st)
    \/ \E u \in UpdateIds : commitEnvoy(u)
    \/ StatusUpdate

----------------------------------------------------------------------------
\* The debounced recomputation scheduler.

\* EventHandler.HoldoffDelay and EventHandler.HoldoffMaxDelay, in milliseconds.
HoldoffDelay == 100
HoldoffMaxDelay == 500

\* Bounds of the scheduler model: the notifications delivered, and the time
\* (in clock steps) after which the clock stops unless a timer is armed.
MaxNotifications == 6
MaxClockSteps == 8

\* The clock advances in steps of half the short holdoff.
ClockStep == HoldoffDelay \div 2

NoRebuild ==
    [lo |-> 0, hi |-> 0, held |-> 0, byMaxTimer |-> FALSE, fromQueue |-> FALSE]
NoHold == [first |-> 0, start |-> 0, fromQueue |-> FALSE]
NoBurst == [first |-> 0, start |-> 0, idle |-> FALSE, rebuilds |-> 0]

\* A notification that moves the scheduler into Holding although a rebuild is
\* executing.
StateAfterNotify_Preempt(st) == "Holding"

\* The state a notification leaves the scheduler in: Idle -> Holding,
\* Holding -> Holding; during Draining the notification waits.
StateAfterNotify(st) == IF st = "Idle" THEN "Holding" ELSE st

\* A short timer that is started on entering Holding and never reset.
ShortTimerAfterNotify_NoReset(st, deadline, now) ==
    IF st = "Idle" THEN now + HoldoffDelay ELSE deadline

\* The short holdoff timer: started on entering Holding, reset by every
\* further notification.
ShortTimerAfterNotify(st, deadline, now) ==
    IF st = "Draining" THEN deadline ELSE now + HoldoffDelay

\* A maximum timer that every notification resets.
MaxTimerAfterNotify_Reset(st, deadline, now) ==
    IF st = "Draining" THEN deadline ELSE now + HoldoffMaxDelay

\* The maximum holdoff timer: started on entering Holding, never reset.
MaxTimerAfterNotify(st, deadline, now) ==
    IF st = "Idle" THEN now + HoldoffMaxDelay ELSE deadline

\* The last notification a rebuild started now covers: every one received
\* since the scheduler left Idle.
RebuildCovers(first, last) == last

\* A completion that forgets the notifications that arrived during Draining.
StateAfterRebuild_Forget(q) == "Idle"

\* Draining -> Idle, and at once Idle -> Holding when notifications arrived
\* during Draining.
StateAfterRebuild(q) == IF q > 0 THEN "Holding" ELSE "Idle"

\* The burst a notification arriving now belongs to: it continues the burst of
\* the previous notification when it arrives within the short holdoff of it
\* and within the maximum holdoff of the burst's first notification.
BurstAfterNotify ==
    IF /\ received > 0
       /\ clock - lastArrival < HoldoffDelay
       /\ clock - burst.start < HoldoffMaxDelay
    THEN burst
    ELSE [first |-> received + 1, start |-> clock, idle |-> (sched = "Idle"),
          rebuilds |-> 0]

SchedInit ==
    /\ sched = "Idle"
    /\ clock = 0
    /\ shortDeadline = 0
    /\ maxDeadline = 0
    /\ received = 0
    /\ hold = NoHold
    /\ queued = 0
    /\ running = 0
    /\ rebuildCount = 0
    /\ lastRebuild = NoRebuild
    /\ lastArrival = 0
    /\ burst = NoBurst

\* OnAdd / OnUpdate / OnDelete: a notification reaches the scheduler.
Notify ==
    /\ received < MaxNotifications
    /\ received' = received + 1
    /\ sched' = StateAfterNotify(sched)
    /\ shortDeadline' = ShortTimerAfterNotify(sched, shortDeadline, clock)
    /\ maxDeadline' = MaxTimerAfterNotify(sched, maxDeadline, clock)
    /\ hold' = IF sched = "Idle"
               THEN [first |-> received + 1, start |-> clock, fromQueue |-> FALSE]
               ELSE hold
    /\ queued' = IF sched = "Draining" THEN queued + 1 ELSE queued
    /\ lastArrival' = clock
    /\ burst' = BurstAfterNotify
    /\ UNCHANGED <<clock, running, rebuildCount, lastRebuild>>
    /\ UNCHANGED nonSchedVars

\* Holding -> Draining: one of the two timers fires, both are stopped and the
\* rebuild starts.
TimerFires ==
    /\ sched = "Holding"
    /\ clock >= shortDeadline \/ clock >= maxDeadline
    /\ sched' = "Draining"
    /\ running' = running + 1
    /\ rebuildCount' = rebuildCount + 1
    /\ lastRebuild' = [lo |-> hold.first, hi |-> RebuildCovers(hold.first, received),
                       held |-> clock - hold.start,
                       byMaxTimer |-> (clock < shortDeadline),
                       fromQueue |-> hold.fromQueue]
    /\ burst' = [burst EXCEPT !.rebuilds = @ + 1]
    /\ shortDeadline' = 0
    /\ maxDeadline' = 0
    /\ UNCHANGED <<clock, received, hold, queued, lastArrival>>
    /\ UNCHANGED nonSchedVars

\* Draining -> Idle: the rebuild completes. Notifications that arrived during
\* Draining open the next window at once.
RebuildDone ==
    /\ sched = "Draining"
    /\ running > 0
    /\ running' = running - 1
    /\ sched' = StateAfterRebuild(queued)
    /\ IF queued > 0
       THEN /\ hold' = [first |-> received - queued + 1, start |-> clock,
                        fromQueue |-> TRUE]
            /\ shortDeadline' = clock + HoldoffDelay
            /\ maxDeadline' = clock + HoldoffMaxDelay
       ELSE UNCHANGED <<hold, shortDeadline, maxDeadline>>
    /\ queued' = 0
    /\ UNCHANGED <<clock, received, rebuildCount, lastRebuild, lastArrival, burst>>
    /\ UNCHANGED nonSchedVars

\* Time passes. An armed timer fires when it is due: the clock does not move
\* past a deadline of the open window.
Tick ==
    /\ IF sched = "Holding"
       THEN clock < shortDeadline /\ clock < maxDeadline
       ELSE clock < MaxClockSteps * ClockStep
    /\ clock' = clock + ClockStep
    /\ UNCHANGED <<sched, shortDeadline, maxDeadline, received, hold, queued, running,
                   rebuildCount, lastRebuild, lastArrival, burst>>
    /\ UNCHANGED nonSchedVars

SchedNext ==
    \/ Notify
    \/ TimerFires
    \/ RebuildDone
    \/ Tick

----------------------------------------------------------------------------
\* The DAG builder, the snapshot cache and its observers.

\* Bound of the snapshot model: the builds started.
MaxBuilds == 3

\* The watched resources, by kind, and the processors in their fixed order
\* (service resolution before route attachment).
Resources == {"service", "route"}
Processors == <<"service", "route">>

\* The collection types of a snapshot and the resource kind each is made of.
CollectionTypes == {"clusters", "routes"}
KindOf(c) == IF c = "clusters" THEN "service" ELSE "route"

\* The observers, in registration order.
Observers == <<"clusterCache", "routeCache", "snapshotHandler">>

NoDag == [content |-> {}, ran |-> 0, built |-> 0, input |-> {}]
NoBuild == [input |-> {}, content |-> {}, ran |-> 0, prevDag |-> NoDag, prevVersion |-> 0]

\* What processor number i adds to the graph from the build's input.
Fragment(i, input) == {r \in input : r = Processors[i]}

\* A builder that hands out the graph as soon as one processor has run.
BuildComplete_Partial(b) == b.ran >= 1

\* The graph is handed out once every processor has run.
BuildComplete(b) == b.ran = Len(Processors)

\* A version that only changes when the DAG does.
NextVersion_Dedup(v, old, new) == IF old.content = new.content THEN v ELSE v + 1

\* The version of the next snapshot.
NextVersion(v, old, new) == v + 1

\* An observer list that is abandoned at the first failure.
NextObserver_StopOnFailure(i, ok) == IF ok THEN i + 1 ELSE Len(Observers) + 1

\* The observer invoked after observer number i, whatever i returned.
NextObserver(i, ok) == i + 1

\* The collections of a snapshot: every collection carries the snapshot's
\* version.
CollectionsOf(dag, v) ==
    [c \in CollectionTypes |->
        [version |-> v, resources |-> {r \in dag.content : r = KindOf(c)}]]

SnapInit ==
    /\ resourceCache = {}
    /\ dirty = FALSE
    /\ phase = "idle"
    /\ build = NoBuild
    /\ buildCount = 0
    /\ publishedDag = NoDag
    /\ snapshotVersion = 0
    /\ collections = CollectionsOf(NoDag, 0)
    /\ nextObserver = 0
    /\ invoked = <<>>
    /\ seen = [o \in 1..Len(Observers) |-> <<>>]
    /\ publishLog = <<>>

\* A notification of the object store reaches the Resource Cache: the whole
\* object is replaced or deleted.
CacheNotify(r, op) ==
    /\ buildCount < MaxBuilds
    /\ CASE op = "add" -> r \notin resourceCache /\ resourceCache' = resourceCache \cup {r}
         [] op = "update" -> r \in resourceCache /\ resourceCache' = resourceCache
         [] op = "delete" -> r \in resourceCache /\ resourceCache' = resourceCache \ {r}
    /\ dirty' = TRUE
    /\ UNCHANGED <<phase, build, buildCount, publishedDag, snapshotVersion, collections,
                   nextObserver, invoked, seen, publishLog>>
    /\ UNCHANGED nonSnapVars

\* The scheduler starts a rebuild: the builder reads the Resource Cache as it
\* is now and starts from an empty graph.
BuildStart ==
    /\ phase = "idle"
    /\ dirty
    /\ buildCount < MaxBuilds
    /\ phase' = "building"
    /\ dirty' = FALSE
    /\ buildCount' = buildCount + 1
    /\ build' = [input |-> resourceCache, content |-> {}, ran |-> 0,
                 prevDag |-> publishedDag, prevVersion |-> snapshotVersion]
    /\ UNCHANGED <<resourceCache, publishedDag, snapshotVersion, collections,
                   nextObserver, invoked, seen, publishLog>>
    /\ UNCHANGED nonSnapVars

\* The next processor runs and adds its fragment to the graph being built.
ProcessorRun ==
    /\ phase = "building"
    /\ build.ran < Len(Processors)
    /\ ~BuildComplete(build)
    /\ build' = [build EXCEPT !.ran = @ + 1,
                              !.content = @ \cup Fragment(build.ran + 1, build.input)]
    /\ UNCHANGED <<resourceCache, dirty, phase, buildCount, publishedDag, snapshotVersion,
                   collections, nextObserver, invoked, seen, publishLog>>
    /\ UNCHANGED nonSnapVars

\* OnNewDAG: the built graph becomes the DAG, its collections are stored under
\* one new version, and the observers are about to be invoked.
OnNewDAG ==
    /\ phase = "building"
    /\ BuildComplete(build)
    /\ LET dag == [content |-> build.content, ran |-> build.ran, built |-> buildCount,
                   input |-> build.input]
           v == NextVersion(snapshotVersion, publishedDag, dag)
       IN  /\ publishedDag' = dag
           /\ snapshotVersion' = v
           /\ collections' = CollectionsOf(dag, v)
           /\ publishLog' = Append(publishLog, [version |-> v, dag |-> dag])
    /\ phase' = "publishing"
    /\ nextObserver' = 1
    /\ invoked' = <<>>
    /\ UNCHANGED <<resourceCache, dirty, build, buildCount, seen>>
    /\ UNCHANGED nonSnapVars

\* The next observer is invoked with the committed snapshot; it succeeds or
\* fails, and the failure is recorded.
ObserverInvoke(ok) ==
    /\ phase = "publishing"
    /\ nextObserver <= Len(Observers)
    /\ seen' = [seen EXCEPT ![nextObserver] =
                    Append(@, [version |-> snapshotVersion, dag |-> publishedDag])]
    /\ invoked' = Append(invoked, [observer |-> nextObserver, ok |-> ok])
    /\ nextObserver' = NextObserver(nextObserver, ok)
    /\ phase' = IF NextObserver(nextObserver, ok) > Len(Observers)
                THEN "idle" ELSE "publishing"
    /\ UNCHANGED <<resourceCache, dirty, build, buildCount, publishedDag, snapshotVersion,
                   collections, publishLog>>
    /\ UNCHANGED nonSnapVars

SnapNext ==
    \/ \E r \in Resources, op \in {"add", "update", "delete"} : CacheNotify(r, op)
    \/ BuildStart
    \/ ProcessorRun
    \/ OnNewDAG
    \/ \E ok \in BOOLEAN : ObserverInvoke(ok)

----------------------------------------------------------------------------
\* GatewayAPIProcessor (internal/dag/gatewayapi_processor.go): which
\* HTTPRoutes the listeners of the Gateway select.

MaxListeners == 2

LabelKeys == {"app", "tier"}
LabelValues == {"a", "b"}

\* map[string]string over the keys and values above.
LabelMaps == UNION {[K -> LabelValues] : K \in SUBSET LabelKeys}

NoLabels == [k \in {} |-> "a"]

\* The LabelSelectorRequirements tried: the four operators, each once with
\* the values it needs, "In" without values, and an unknown operator.
MatchExpressionChoices ==
    {[key |-> "tier", operator |-> "In", values |-> {"b"}],
     [key |-> "tier", operator |-> "NotIn", values |-> {"b"}],
     [key |-> "tier", operator |-> "Exists", values |-> {}],
     [key |-> "tier", operator |-> "DoesNotExist", values |-> {}],
     [key |-> "tier", operator |-> "In", values |-> {}],
     [key |-> "tier", operator |-> "Bogus", values |-> {}]}

MatchLabelChoices ==
    {NoLabels, [k \in {"app"} |-> "a"], [k \in {"app", "tier"} |-> IF k = "app" THEN "a" ELSE "b"]}

\* metav1.LabelSelector
Selectors ==
    [MatchLabels : MatchLabelChoices,
     MatchExpressions : {<<>>} \cup {<<e>> : e \in MatchExpressionChoices}]

ListenerLists == UNION {[1..n -> Selectors] : n \in 0..MaxListeners}

NoResult == [evaluated |-> <<>>, valid |-> FALSE, stage |-> "empty"]

\* labels.NewRequirement, as metav1.LabelSelectorAsSelector calls it: the
\* operator is known and has the number of values it needs.
RequirementOk(expr) ==
    CASE expr.operator \in {"In", "NotIn"} -> expr.values # {}
      [] expr.operator \in {"Exists", "DoesNotExist"} -> expr.values = {}
      [] OTHER -> FALSE

\* labels.Requirement.Matches
RequirementMatches(req, objLabels) ==
    CASE req.operator = "In" ->
            req.key \in DOMAIN objLabels /\ objLabels[req.key] \in req.values
      [] req.operator = "NotIn" ->
            req.key \notin DOMAIN objLabels \/ objLabels[req.key] \notin req.values
      [] req.operator = "Exists" -> req.key \in DOMAIN objLabels
      [] OTHER -> req.key \notin DOMAIN objLabels

\* metav1.LabelSelectorAsSelector: one "In" requirement per matchLabels pair
\* and one requirement per matchExpression, or an error.
LabelSelectorAsSelector(selector) ==
    LET ml == selector.MatchLabels
        me == selector.MatchExpressions
    IN  [err |-> \E i \in 1..Len(me) : ~RequirementOk(me[i]),
         requirements |->
            {[key |-> k, operator |-> "In", values |-> {ml[k]}] : k \in DOMAIN ml}
            \cup {me[i] : i \in 1..Len(me)}]

\* selectorMatches
selectorMatches(selector, objLabels) ==
    IF DOMAIN selector.MatchLabels # {} \/ Len(selector.MatchExpressions) > 0
    THEN LET l == LabelSelectorAsSelector(selector)
         IN  IF l.err
             THEN [matches |-> FALSE, err |-> TRUE]
             ELSE [matches |-> \A r \in l.requirements : RequirementMatches(r, objLabels),
                   err |-> FALSE]
    ELSE [matches |-> TRUE, err |-> FALSE]

\* The listener loop of Run for one HTTPRoute: the selectors are tried in
\* order and the loop breaks at the first match.  evaluated is what
\* selectorMatches returned for each listener tried; valid is whether the
\* route was appended to validRoutes.
RECURSIVE ListenerLoop(_, _, _)
ListenerLoop(listeners, objLabels, evaluated) ==
    IF listeners = <<>>
    THEN [evaluated |-> evaluated, valid |-> FALSE]
    ELSE LET m == selectorMatches(Head(listeners), objLabels)
         IN  IF m.matches
             THEN [evaluated |-> Append(evaluated, m), valid |-> TRUE]
             ELSE ListenerLoop(Tail(listeners), objLabels, Append(evaluated, m))

\* A loop that looks at the first listener only.
RouteSelected_FirstOnly(listeners, objLabels) ==
    IF listeners = <<>>
    THEN [evaluated |-> <<>>, valid |-> FALSE]
    ELSE LET m == selectorMatches(Head(listeners), objLabels)
         IN  [evaluated |-> <<m>>, valid |-> m.matches]

RouteSelected(listeners, objLabels) == ListenerLoop(listeners, objLabels, <<>>)

FltInit ==
    /\ fltListeners = <<>>
    /\ fltLabels = NoLabels
    /\ fltResult = NoResult

\* The cache holds a Gateway with some listeners and an HTTPRoute with some
\* labels.
FltLoad ==
    /\ fltResult.stage = "empty"
    /\ \E listeners \in ListenerLists, objLabels \in LabelMaps :
        /\ fltListeners' = listeners
        /\ fltLabels' = objLabels
    /\ fltResult' = [NoResult EXCEPT !.stage = "cached"]
    /\ UNCHANGED nonFltVars

\* Run reaches the HTTPRoute.
FltRoute ==
    /\ fltResult.stage = "cached"
    /\ LET r == RouteSelected(fltListeners, fltLabels)
       IN  fltResult' = [evaluated |-> r.evaluated, valid |-> r.valid, stage |-> "done"]
    /\ UNCHANGED <<fltListeners, fltLabels>>
    /\ UNCHANGED nonFltVars

FltNext ==
    \/ FltLoad
    \/ FltRoute

MaxRoutes == 2
MaxRules == 3

\* A nil pointer is the empty sequence, a set one a sequence of one value.
Nil == <<>>

\* The Services of the KubernetesCache, as dag.Service values.
KnownServices ==
    {[Name |-> "svc-a", Namespace |-> "default", Port |-> 80, Protocol |-> ""],
     [Name |-> "svc-b", Namespace |-> "default", Port |-> 80, Protocol |-> "h2"]}

\* HTTPRouteForwardTo values: complete ones, one without a name, one without
\* a port, and one that names a Service the cache does not hold.
ForwardA == [ServiceName |-> <<"svc-a">>, Port |-> <<80>>]
ForwardB == [ServiceName |-> <<"svc-b">>, Port |-> <<80>>]
ForwardNoName == [ServiceName |-> Nil, Port |-> <<80>>]
ForwardNoPort == [ServiceName |-> <<"svc-a">>, Port |-> Nil]
ForwardGhost == [ServiceName |-> <<"svc-ghost">>, Port |-> <<80>>]

PrefixMatch(v) == [Type |-> "Prefix", Value |-> v]
ExactMatch(v) == [Type |-> "Exact", Value |-> v]

\* The HTTPRouteRules tried: one and two prefixes with one and two services,
\* the same service twice next to a match that is no prefix, forwardTos that
\* are all incomplete, partly incomplete, partly unknown to the cache, and
\* a rule without matches and one without forwardTos.
Rules ==
    {[Matches |-> <<PrefixMatch("")>>, ForwardTo |-> <<ForwardA>>],
     [Matches |-> <<PrefixMatch("/foo"), PrefixMatch("")>>,
      ForwardTo |-> <<ForwardA, ForwardB>>],
     [Matches |-> <<PrefixMatch("/foo"), ExactMatch("/bar")>>,
      ForwardTo |-> <<ForwardA, ForwardA>>],
     [Matches |-> <<PrefixMatch("")>>, ForwardTo |-> <<ForwardNoName, ForwardNoPort>>],
     [Matches |-> <<PrefixMatch("/foo")>>, ForwardTo |-> <<ForwardNoPort, ForwardB>>],
     [Matches |-> <<PrefixMatch("")>>, ForwardTo |-> <<ForwardA, ForwardGhost>>],
     [Matches |-> <<>>, ForwardTo |-> <<ForwardA>>],
     [Matches |-> <<PrefixMatch("")>>, ForwardTo |-> <<>>]}

\* The HTTPRoutes tried, without their rules: the rules are read one at a
\* time.
HTTPRoutes ==
    {[Namespace |-> "default", Labels |-> NoLabels, TLS |-> FALSE, Hostnames |-> <<>>],
     [Namespace |-> "default", Labels |-> NoLabels, TLS |-> FALSE,
      Hostnames |-> <<"a.example", "b.example">>],
     [Namespace |-> "default", Labels |-> [k \in {"app"} |-> "a"], TLS |-> FALSE,
      Hostnames |-> <<"a.example">>],
     [Namespace |-> "default", Labels |-> [k \in {"app"} |-> "a"], TLS |-> TRUE,
      Hostnames |-> <<>>]}

NoGateway == [defined |-> FALSE, Listeners |-> <<>>]

\* The Gateways tried: none, one whose listener selects every route, and one
\* with a listener whose selector is invalid before one that selects app=a.
Gateways ==
    {NoGateway,
     [defined |-> TRUE,
      Listeners |-> <<[MatchLabels |-> NoLabels, MatchExpressions |-> <<>>]>>],
     [defined |-> TRUE,
      Listeners |-> <<[MatchLabels |-> NoLabels,
                       MatchExpressions |->
                            <<[key |-> "tier", operator |-> "In", values |-> {}]>>],
                      [MatchLabels |-> [k \in {"app"} |-> "a"],
                       MatchExpressions |-> <<>>]>>]}

EmptyDag == [h \in {} |-> <<>>]

\* The DAGs Run is handed: an empty one, and one an earlier processor has
\* put a VirtualHost with a Route in.
StartDags ==
    {EmptyDag,
     [h \in {"*"} |->
        <<[Prefix |-> "/",
           Clusters |-> <<[Upstream |-> [Name |-> "svc-b", Namespace |-> "default",
                                         Port |-> 80, Protocol |-> "h2"],
                           Protocol |-> "h2"]>>]>>]}

NoStep == [kind |-> "none", diags |-> <<>>]
NoCur == [idx |-> 0, started |-> FALSE, rules |-> 0]

Range(s) == {s[i] : i \in 1..Len(s)}

\* Run: the Gateway is defined.
GatewayDefined_Always(g) == TRUE

GatewayDefined(g) == g.defined

\* computeHTTPRoute: the hosts of a route, "*" when it names none.
Hosts_FirstOnly(hostnames) ==
    IF Len(hostnames) = 0 THEN <<"*">> ELSE <<hostnames[1]>>

Hosts(hostnames) ==
    IF Len(hostnames) = 0 THEN <<"*">> ELSE hostnames

\* computeHTTPRoute: the prefixes of a rule's matches, stringOrDefault(value,
\* "/") for each PathMatchPrefix, and a diagnostic for each other match.
RECURSIVE PathPrefixes(_)
PathPrefixes(matches) ==
    IF matches = <<>>
    THEN [pathPrefixes |-> <<>>, diags |-> <<>>]
    ELSE LET rest == PathPrefixes(Tail(matches))
             m == Head(matches)
         IN  IF m.Type = "Prefix"
             THEN [pathPrefixes |-> <<IF m.Value = "" THEN "/" ELSE m.Value>>
                                        \o rest.pathPrefixes,
                   diags |-> rest.diags]
             ELSE [pathPrefixes |-> rest.pathPrefixes,
                   diags |-> <<"NOT IMPLEMENTED: Only PathMatchPrefix">> \o rest.diags]

\* computeHTTPRoute: the forwardTos that have a ServiceName and a Port.
RECURSIVE ValidForwardTos(_)
ValidForwardTos(forwardTo) ==
    IF forwardTo = <<>>
    THEN [forwardTos |-> <<>>, diags |-> <<>>]
    ELSE LET rest == ValidForwardTos(Tail(forwardTo))
             f == Head(forwardTo)
         IN  IF f.ServiceName = Nil
             THEN [forwardTos |-> rest.forwardTos,
                   diags |-> <<"ServiceName must be specified.">> \o rest.diags]
             ELSE IF f.Port = Nil
             THEN [forwardTos |-> rest.forwardTos,
                   diags |-> <<"ServicePort must be specified.">> \o rest.diags]
             ELSE [forwardTos |-> <<f>> \o rest.forwardTos, diags |-> rest.diags]

\* DAG.EnsureService: the dag.Service of a Service and port of the cache, or
\* an error.
EnsureService(name, namespace, port) ==
    LET found == {s \in KnownServices :
                    s.Name = name /\ s.Namespace = namespace /\ s.Port = port}
    IN  IF found = {}
        THEN [err |-> TRUE, service |-> <<>>]
        ELSE [err |-> FALSE, service |-> CHOOSE s \in found : TRUE]

\* computeHTTPRoute: the services of the valid forwardTos, in order; the
\* first one that cannot be found ends the loop with an error.
RECURSIVE ResolveServices(_, _, _)
ResolveServices(forwardTos, namespace, services) ==
    IF forwardTos = <<>>
    THEN [err |-> FALSE, services |-> services]
    ELSE LET e == EnsureService(Head(forwardTos).ServiceName[1], namespace,
                                Head(forwardTos).Port[1])
         IN  IF e.err
             THEN [err |-> TRUE, services |-> services]
             ELSE ResolveServices(Tail(forwardTos), namespace,
                                  Append(services, e.service))

\* computeHTTPRoute: a rule whose forwardTos resolved to no service is
\* invalid.
RuleInvalid_Never(services) == FALSE

RuleInvalid(services) == Len(services) = 0

\* A routes that makes a Route for the first prefix only.
routes_FirstPrefix(pathPrefixes, services) ==
    LET clusters == [i \in 1..Len(services) |->
                        [Upstream |-> services[i], Protocol |-> services[i].Protocol]]
    IN  IF pathPrefixes = <<>> THEN <<>>
        ELSE <<[Prefix |-> pathPrefixes[1], Clusters |-> clusters]>>

\* GatewayAPIProcessor.routes: one Cluster per service, one Route per prefix,
\* each Route with all the Clusters.
routes(pathPrefixes, services) ==
    LET clusters == [i \in 1..Len(services) |->
                        [Upstream |-> services[i], Protocol |-> services[i].Protocol]]
    IN  [i \in 1..Len(pathPrefixes) |->
            [Prefix |-> pathPrefixes[i], Clusters |-> clusters]]

\* DAG.EnsureVirtualHost: get or create the VirtualHost of a host.
EnsureVirtualHost(d, host) ==
    IF host \in DOMAIN d
    THEN d
    ELSE [h \in DOMAIN d \cup {host} |-> IF h = host THEN <<>> ELSE d[h]]

\* VirtualHost.addRoute: the Routes of a VirtualHost are an ordered set.
addRoute(d, host, route) ==
    [d EXCEPT ![host] = IF route \in Range(@) THEN @ ELSE Append(@, route)]

RECURSIVE AddRoutes(_, _, _)
AddRoutes(d, host, rs) ==
    IF rs = <<>> THEN d
    ELSE AddRoutes(addRoute(d, host, Head(rs)), host, Tail(rs))

\* computeHTTPRoute: attach the routes to the VirtualHost of every host.
RECURSIVE AttachRoutes(_, _, _)
AttachRoutes(d, hosts, rs) ==
    IF hosts = <<>> THEN d
    ELSE AttachRoutes(AddRoutes(EnsureVirtualHost(d, Head(hosts)), Head(hosts), rs),
                      Tail(hosts), rs)

\* A computeHTTPRoute that goes on with the next rule when a service cannot
\* be resolved.
computeRule_ContinueOnError(d, route, rule) ==
    LET pp == PathPrefixes(rule.Matches)
        vf == ValidForwardTos(rule.ForwardTo)
        rs == ResolveServices(vf.forwardTos, route.Namespace, <<>>)
        made == routes(pp.pathPrefixes, rs.services)
    IN  IF rs.err \/ RuleInvalid(rs.services)
        THEN [outcome |-> "continue", dag |-> d, routes |-> <<>>,
              diags |-> pp.diags \o vf.diags \o <<"rule invalid due to invalid forwardTo">>]
        ELSE [outcome |-> "attached", dag |-> AttachRoutes(d, Hosts(route.Hostnames), made),
              routes |-> made, diags |-> pp.diags \o vf.diags]
\* computeHTTPRoute: one iteration of the loop over route.Spec.Rules.
computeRule(d, route, rule) ==
    LET pp == PathPrefixes(rule.Matches)
        vf == ValidForwardTos(rule.ForwardTo)
        rs == ResolveServices(vf.forwardTos, route.Namespace, <<>>)
        made == routes(pp.pathPrefixes, rs.services)
    IN  IF rs.err
        THEN [outcome |-> "return", dag |-> d, routes |-> <<>>,
              diags |-> pp.diags \o vf.diags \o <<"Service does not exist">>]
        ELSE IF RuleInvalid(rs.services)
        THEN [outcome |-> "continue", dag |-> d, routes |-> <<>>,
              diags |-> pp.diags \o vf.diags \o <<"rule invalid due to invalid forwardTo">>]
        ELSE [outcome |-> "attached", dag |-> AttachRoutes(d, Hosts(route.Hostnames), made),
              routes |-> made, diags |-> pp.diags \o vf.diags]

DagInit ==
    /\ gateway = NoGateway
    /\ pc = "idle"
    /\ filtered = 0
    /\ validRoutes = <<>>
    /\ cur = NoCur
    /\ pdag = EmptyDag
    /\ dagAtStart = EmptyDag
    /\ step = NoStep

\* Run is called with a DAG and a cache.
DagLoad(g, d) ==
    /\ pc = "idle"
    /\ gateway' = g
    /\ pdag' = d
    /\ dagAtStart' = d
    /\ pc' = "start"
    /\ UNCHANGED <<filtered, validRoutes, cur, step>>
    /\ UNCHANGED nonDagVars

\* Run: the Gateway must be defined.
RunStart ==
    /\ pc = "start"
    /\ IF GatewayDefined(gateway)
       THEN /\ pc' = "filter"
            /\ step' = [kind |-> "start", diags |-> <<>>]
       ELSE /\ pc' = "done"
            /\ step' = [kind |-> "return", diags |-> <<"Gateway is not defined!">>]
    /\ UNCHANGED <<gateway, filtered, validRoutes, cur, pdag, dagAtStart>>
    /\ UNCHANGED nonDagVars

\* Run: the first loop meets an HTTPRoute of the cache.
RunFilter(route) ==
    /\ pc = "filter"
    /\ filtered < MaxRoutes
    /\ LET r == RouteSelected(gateway.Listeners, route.Labels)
       IN  /\ validRoutes' = IF r.valid THEN Append(validRoutes, route) ELSE validRoutes
           /\ step' = [kind |-> "filter", route |-> route, valid |-> r.valid,
                       diags |-> [i \in 1..Cardinality({j \in 1..Len(r.evaluated) :
                                                            r.evaluated[j].err})
                                    |-> "error validating routes"]]
    /\ filtered' = filtered + 1
    /\ UNCHANGED <<gateway, pc, cur, pdag, dagAtStart>>
    /\ UNCHANGED nonDagVars

\* Run: the cache holds no further HTTPRoute.
RunFilterEnd ==
    /\ pc = "filter"
    /\ pc' = "compute"
    /\ cur' = [idx |-> 1, started |-> FALSE, rules |-> 0]
    /\ step' = [kind |-> "filtered", diags |-> <<>>]
    /\ UNCHANGED <<gateway, filtered, validRoutes, pdag, dagAtStart>>
    /\ UNCHANGED nonDagVars

\* computeHTTPRoute is entered for the next valid route.
ComputeStart ==
    /\ pc = "compute"
    /\ ~cur.started
    /\ cur.idx <= Len(validRoutes)
    /\ cur' = [cur EXCEPT !.started = TRUE]
    /\ step' = [kind |-> "route",
                diags |-> IF validRoutes[cur.idx].TLS
                          THEN <<"NOT IMPLEMENTED: RouteTLSConfig">> ELSE <<>>]
    /\ UNCHANGED <<gateway, pc, filtered, validRoutes, pdag, dagAtStart>>
    /\ UNCHANGED nonDagVars

\* computeHTTPRoute: the next rule of the route.
ComputeRule(rule) ==
    /\ pc = "compute"
    /\ cur.started
    /\ cur.rules < MaxRules
    /\ LET r == computeRule(pdag, validRoutes[cur.idx], rule)
       IN  /\ pdag' = r.dag
           /\ step' = [kind |-> "rule", rule |-> rule, route |-> validRoutes[cur.idx],
                       before |-> pdag, outcome |-> r.outcome, routes |-> r.routes,
                       diags |-> r.diags]
           /\ cur' = IF r.outcome = "return"
                     THEN [idx |-> cur.idx + 1, started |-> FALSE, rules |-> cur.rules + 1]
                     ELSE [cur EXCEPT !.rules = @ + 1]
    /\ UNCHANGED <<gateway, pc, filtered, validRoutes, dagAtStart>>
    /\ UNCHANGED nonDagVars

\* computeHTTPRoute: the route has no further rule.
ComputeEnd ==
    /\ pc = "compute"
    /\ cur.started
    /\ cur' = [idx |-> cur.idx + 1, started |-> FALSE, rules |-> cur.rules]
    /\ step' = [kind |-> "routeDone", diags |-> <<>>]
    /\ UNCHANGED <<gateway, pc, filtered, validRoutes, pdag, dagAtStart>>
    /\ UNCHANGED nonDagVars

\* Run returns after the last valid route.
RunEnd ==
    /\ pc = "compute"
    /\ ~cur.started
    /\ cur.idx > Len(validRoutes)
    /\ pc' = "done"
    /\ step' = [kind |-> "done", diags |-> <<>>]
    /\ UNCHANGED <<gateway, filtered, validRoutes, cur, pdag, dagAtStart>>
    /\ UNCHANGED nonDagVars

DagNext ==
    \/ \E g \in Gateways, d \in StartDags : DagLoad(g, d)
    \/ RunStart
    \/ \E route \in HTTPRoutes : RunFilter(route)
    \/ RunFilterEnd
    \/ ComputeStart
    \/ \E rule \in Rules : ComputeRule(rule)
    \/ ComputeEnd
    \/ RunEnd
----------------------------------------------------------------------------
\* The reconcilers of Envoy, Gateway and Namespace objects, the validation
\* they call and the errors that come back.  One call is made at a time; call
\* records what it was handed and what it returned and did.

MaxErrs == 3

NoErr == [kind |-> "nil"]

\* What client.Client hands back: apierrors with a reason, or an error that
\* implements retryable.Error.  A plain error is one made with fmt.Errorf.
StatusNotFound == [kind |-> "status", reason |-> "NotFound"]
StatusTimeout == [kind |-> "status", reason |-> "Timeout"]
Plain(msg) == [kind |-> "plain", msg |-> msg]
Retryable(after) == [kind |-> "retryable", after |-> after, errs |-> <<>>]

\* fmt.Errorf("...: %w", err): the result has no After method.
Wrap(err) == [kind |-> "wrapped", cause |-> err]

\* errors.IsNotFound
IsNotFound_Never(err) == FALSE

IsNotFound(err) == err.kind = "status" /\ err.reason = "NotFound"

\* reconcile.Result{} with a nil error.
Done == [RequeueAfter |-> 0, err |-> NoErr]

NoCall == [kind |-> "none"]

\* The largest After() among retryable errors.
RECURSIVE MaxAfter(_)
MaxAfter(errs) ==
    IF errs = <<>> THEN 0
    ELSE LET rest == MaxAfter(Tail(errs))
         IN  IF Head(errs).after > rest THEN Head(errs).after ELSE rest

\* An aggregate that is retryable as soon as one member is.
NewMaybeRetryableAggregate_AnyRetryable(errs) ==
    IF errs = <<>> THEN NoErr
    ELSE IF \E i \in 1..Len(errs) : errs[i].kind = "retryable"
    THEN [kind |-> "retryable", errs |-> errs,
          after |-> MaxAfter(SelectSeq(errs, LAMBDA e : e.kind = "retryable"))]
    ELSE [kind |-> "aggregate", errs |-> errs]

\* retryable.NewMaybeRetryableAggregate: nil for no errors, a retryable.Error
\* when every member is one, and an aggregate that is not retryable otherwise.
NewMaybeRetryableAggregate(errs) ==
    IF errs = <<>> THEN NoErr
    ELSE IF \A i \in 1..Len(errs) : errs[i].kind = "retryable"
    THEN [kind |-> "retryable", after |-> MaxAfter(errs), errs |-> errs]
    ELSE [kind |-> "aggregate", errs |-> errs]

\* The error lists an aggregate is made of.
ErrLists ==
    UNION {[1..n -> {Plain("invalid"), Retryable(1), Retryable(2)}] : n \in 0..MaxErrs}

\* Envoy reconciler: what the switch on the error of ensureEnvoy and
\* ensureEnvoyDeleted returns.
RequeueResult(err) ==
    IF err.kind = "retryable"
    THEN [RequeueAfter |-> err.after, err |-> NoErr]
    ELSE [RequeueAfter |-> 0, err |-> err]

\* The Envoy the reconciler works on when Get failed without NotFound.
ZeroEnvoy == [deleting |-> FALSE, finalized |-> FALSE, Type |-> ""]

Envoys ==
    [deleting : BOOLEAN, finalized : BOOLEAN,
     Type : {"LoadBalancerService", "NodePortService", "ClusterIPService"}]

\* What the calls made during an Envoy reconcile hand back: validation.Envoy,
\* the Update of the Envoy, the Get of its Service, the Create, Update or
\* Delete of the Service, whether the Service has the owner labels and
\* whether it differs from the desired one.
EnvoyFaults ==
    [validate : {NoErr, Plain("invalid")},
     update : {NoErr, StatusTimeout},
     svcGet : {NoErr, StatusNotFound, StatusTimeout, Retryable(2)},
     svcWrite : {NoErr, StatusNotFound, StatusTimeout},
     owned : BOOLEAN, changed : BOOLEAN]

\* k8s_envoy.EnsureService
k8s_envoy_EnsureService(f) ==
    IF f.svcGet # NoErr
    THEN IF IsNotFound(f.svcGet)
         THEN IF f.svcWrite # NoErr
              THEN [err |-> Wrap(f.svcWrite), writes |-> <<>>]
              ELSE [err |-> NoErr, writes |-> <<"Create Service">>]
         ELSE [err |-> Wrap(f.svcGet), writes |-> <<>>]
    ELSE IF f.owned /\ f.changed
    THEN IF f.svcWrite # NoErr
         THEN [err |-> Wrap(Wrap(f.svcWrite)), writes |-> <<>>]
         ELSE [err |-> NoErr, writes |-> <<"Update Service">>]
    ELSE [err |-> NoErr, writes |-> <<>>]

\* An EnsureServiceDeleted that deletes the Service whoever owns it.
EnsureServiceDeleted_Unowned(f) ==
    IF f.svcGet # NoErr
    THEN IF IsNotFound(f.svcGet)
         THEN [err |-> NoErr, writes |-> <<>>]
         ELSE [err |-> f.svcGet, writes |-> <<>>]
    ELSE IF f.svcWrite # NoErr
    THEN IF IsNotFound(f.svcWrite)
         THEN [err |-> NoErr, writes |-> <<>>]
         ELSE [err |-> f.svcWrite, writes |-> <<>>]
    ELSE [err |-> NoErr, writes |-> <<"Delete Service">>]
\* k8s_envoy.EnsureServiceDeleted
EnsureServiceDeleted(f) ==
    IF f.svcGet # NoErr
    THEN IF IsNotFound(f.svcGet)
         THEN [err |-> NoErr, writes |-> <<>>]
         ELSE [err |-> f.svcGet, writes |-> <<>>]
    ELSE IF f.owned
    THEN IF f.svcWrite # NoErr
         THEN IF IsNotFound(f.svcWrite)
              THEN [err |-> NoErr, writes |-> <<>>]
              ELSE [err |-> f.svcWrite, writes |-> <<>>]
         ELSE [err |-> NoErr, writes |-> <<"Delete Service">>]
    ELSE [err |-> NoErr, writes |-> <<>>]

\* k8s_envoy.EnsureFinalizer and EnsureFinalizerRemoved: an Update of the
\* Envoy when the finalizer is not yet as wanted.
EnsureFinalizer(envoy, wanted, f) ==
    IF envoy.finalized # wanted
    THEN IF f.update # NoErr
         THEN [err |-> Wrap(f.update), writes |-> <<>>]
         ELSE [err |-> NoErr, writes |-> <<"Update Envoy finalizers">>]
    ELSE [err |-> NoErr, writes |-> <<>>]

\* envoyReconciler.ensureEnvoy
ensureEnvoy(envoy, f) ==
    IF envoy.Type \in {"LoadBalancerService", "NodePortService", "ClusterIPService"}
    THEN LET s == k8s_envoy_EnsureService(f)
         IN  IF s.err # NoErr
             THEN [err |-> Wrap(s.err), writes |-> s.writes]
             ELSE s
    ELSE [err |-> NoErr, writes |-> <<>>]

\* envoyReconciler.ensureEnvoyDeleted
ensureEnvoyDeleted(envoy, f) ==
    LET s == IF envoy.Type \in {"LoadBalancerService", "NodePortService"}
             THEN EnsureServiceDeleted(f)
             ELSE [err |-> NoErr, writes |-> <<>>]
        r == EnsureFinalizer(envoy, FALSE, f)
    IN  IF s.err # NoErr
        THEN [err |-> Wrap(s.err), writes |-> s.writes]
        ELSE IF r.err # NoErr
        THEN [err |-> Wrap(r.err), writes |-> s.writes]
        ELSE [err |-> NoErr, writes |-> s.writes \o r.writes]

\* A Reconcile that ensures the Service in the reconcile that adds the
\* finalizer.
envoyReconcile_EnsureAtOnce(getErr, stored, f) ==
    IF IsNotFound(getErr) \/ stored.deleting \/ f.validate # NoErr
    THEN [result |-> Done, events |-> <<>>, writes |-> <<>>]
    ELSE LET e == EnsureFinalizer(stored, TRUE, f)
             s == ensureEnvoy(stored, f)
         IN  [result |-> IF e.err # NoErr THEN [RequeueAfter |-> 0, err |-> e.err]
                         ELSE IF s.err # NoErr THEN RequeueResult(s.err) ELSE Done,
              events |-> <<"OnAdd">>,
              writes |-> IF e.err # NoErr THEN <<>> ELSE e.writes \o s.writes]
\* A Reconcile of the Envoy reconciler that validates before it calls OnAdd.
envoyReconcile_ValidateFirst(getErr, stored, f) ==
    IF IsNotFound(getErr)
    THEN [result |-> Done, events |-> <<>>, writes |-> <<>>]
    ELSE LET envoy == IF getErr = NoErr THEN stored ELSE ZeroEnvoy
         IN  IF ~envoy.deleting
             THEN IF f.validate # NoErr
                  THEN [result |-> [RequeueAfter |-> 0, err |-> Wrap(f.validate)],
                        events |-> <<>>, writes |-> <<>>]
                  ELSE IF ~envoy.finalized
                  THEN LET e == EnsureFinalizer(envoy, TRUE, f)
                       IN  [result |-> [RequeueAfter |-> 0, err |-> e.err],
                            events |-> <<"OnAdd">>, writes |-> e.writes]
                  ELSE LET e == ensureEnvoy(envoy, f)
                       IN  [result |-> IF e.err # NoErr THEN RequeueResult(e.err) ELSE Done,
                            events |-> <<"OnAdd">>, writes |-> e.writes]
             ELSE LET e == ensureEnvoyDeleted(envoy, f)
                  IN  [result |-> IF e.err # NoErr THEN RequeueResult(e.err) ELSE Done,
                       events |-> <<"OnDelete">>, writes |-> e.writes]
\* envoyReconciler.Reconcile
envoyReconcile(getErr, stored, f) ==
    IF IsNotFound(getErr)
    THEN [result |-> Done, events |-> <<>>, writes |-> <<>>]
    ELSE LET envoy == IF getErr = NoErr THEN stored ELSE ZeroEnvoy
         IN  IF ~envoy.deleting
             THEN IF f.validate # NoErr
                  THEN [result |-> [RequeueAfter |-> 0, err |-> Wrap(f.validate)],
                        events |-> <<"OnAdd">>, writes |-> <<>>]
                  ELSE IF ~envoy.finalized
                  THEN LET e == EnsureFinalizer(envoy, TRUE, f)
                       IN  [result |-> [RequeueAfter |-> 0, err |-> e.err],
                            events |-> <<"OnAdd">>, writes |-> e.writes]
                  ELSE LET e == ensureEnvoy(envoy, f)
                       IN  [result |-> IF e.err # NoErr THEN RequeueResult(e.err) ELSE Done,
                            events |-> <<"OnAdd">>, writes |-> e.writes]
             ELSE LET e == ensureEnvoyDeleted(envoy, f)
                  IN  [result |-> IF e.err # NoErr THEN RequeueResult(e.err) ELSE Done,
                       events |-> <<"OnDelete">>, writes |-> e.writes]

\* The Gateways the reconciler is handed: being deleted or not, with or
\* without the finalizer, with the parts of the spec that validation rejects,
\* and with the Ready condition the stored status has.
GatewayObjects ==
    [deleting : BOOLEAN, finalized : BOOLEAN,
     invalid : {{}, {"listeners"}, {"upstream", "addresses"}},
     ready : {"none", "True", "False"}]

\* The GatewayClass a Gateway names: what Get returns for it and whether it
\* is admitted.
GatewayClasses ==
    {[get |-> NoErr, admitted |-> TRUE], [get |-> NoErr, admitted |-> FALSE],
     [get |-> StatusNotFound, admitted |-> FALSE],
     [get |-> StatusTimeout, admitted |-> FALSE]}

\* What the calls made during a Gateway reconcile hand back: the Update that
\* adds the finalizer, the Get after it, and the Update of the status.
GatewayFaults ==
    [update : {NoErr, StatusTimeout},
     reGet : {NoErr, StatusNotFound, StatusTimeout},
     statusUpdate : {NoErr, StatusTimeout}]

\* validation.Gateway
validationGateway(gw, class) ==
    LET errs ==
            (IF class.get # NoErr
             THEN (IF IsNotFound(class.get) THEN <<Plain("internal error")>> ELSE <<>>)
                  \o <<Wrap(class.get)>>
             ELSE <<>>)
            \o (IF ~class.admitted THEN <<Plain("gatewayclass is not admitted")>> ELSE <<>>)
            \o (IF "upstream" \in gw.invalid THEN <<Wrap(Plain("invalid"))>> ELSE <<>>)
            \o (IF "listeners" \in gw.invalid THEN <<Wrap(Plain("invalid"))>> ELSE <<>>)
            \o (IF "addresses" \in gw.invalid THEN <<Wrap(Plain("invalid"))>> ELSE <<>>)
    IN  IF Len(errs) # 0 THEN NewMaybeRetryableAggregate(errs) ELSE NoErr

\* status.SyncGateway: the Ready condition is made to say whether the
\* Gateway is valid, and the status is updated when that changes it.
SyncGateway(gw, valid, f) ==
    LET desired == IF valid THEN "True" ELSE "False"
        changed == gw.ready # desired
        failed == changed /\ f.statusUpdate # NoErr
    IN  [err |-> NewMaybeRetryableAggregate(
                    IF failed THEN <<Wrap(f.statusUpdate)>> ELSE <<>>),
         writes |-> IF changed /\ ~failed THEN <<"Update Gateway status">> ELSE <<>>,
         ready |-> IF changed /\ ~failed THEN desired ELSE gw.ready]

\* gatewayReconciler.Reconcile
gatewayReconcile(getErr, gw, class, f) ==
    IF getErr # NoErr
    THEN [result |-> IF IsNotFound(getErr) THEN Done
                     ELSE [RequeueAfter |-> 0, err |-> Wrap(getErr)],
          events |-> <<>>, writes |-> <<>>, validation |-> NoErr, ready |-> gw.ready]
    ELSE IF gw.deleting
    THEN [result |-> Done, events |-> <<"OnDelete">>, writes |-> <<>>,
          validation |-> NoErr, ready |-> gw.ready]
    ELSE LET v == validationGateway(gw, class)
             valid == v = NoErr
             finalize == valid /\ ~gw.finalized
             s == SyncGateway(gw, valid, f)
         IN  IF finalize /\ f.update # NoErr
             THEN [result |-> [RequeueAfter |-> 0, err |-> Wrap(Wrap(f.update))],
                   events |-> <<"OnAdd">>, writes |-> <<>>, validation |-> v,
                   ready |-> gw.ready]
             ELSE IF finalize /\ f.reGet # NoErr
             THEN [result |-> IF IsNotFound(f.reGet) THEN Done
                              ELSE [RequeueAfter |-> 0, err |-> Wrap(f.reGet)],
                   events |-> <<"OnAdd">>, writes |-> <<"Update Gateway finalizers">>,
                   validation |-> v, ready |-> gw.ready]
             ELSE [result |-> IF s.err # NoErr
                              THEN [RequeueAfter |-> 0, err |-> Wrap(s.err)]
                              ELSE Done,
                   events |-> <<"OnAdd">>,
                   writes |-> (IF finalize THEN <<"Update Gateway finalizers">> ELSE <<>>)
                              \o s.writes,
                   validation |-> v, ready |-> s.ready]

\* namespaceReconciler.Reconcile
namespaceReconcile(getErr, deleting) ==
    IF IsNotFound(getErr)
    THEN [result |-> Done, events |-> <<>>, writes |-> <<>>]
    ELSE IF getErr = NoErr /\ deleting
    THEN [result |-> Done, events |-> <<"OnDelete">>, writes |-> <<>>]
    ELSE [result |-> Done, events |-> <<"OnAdd">>, writes |-> <<>>]

RecInit == call = NoCall

\* What the Get of the requested object hands back.
GetErrs == {NoErr, StatusNotFound, StatusTimeout}

\* A list of errors is made into one error.
AggregateErrors ==
    /\ call = NoCall
    /\ \E errs \in ErrLists :
        call' = [kind |-> "aggregate", errs |-> errs,
                 out |-> NewMaybeRetryableAggregate(errs)]
    /\ UNCHANGED nonRecVars

\* A request for an Envoy is reconciled.
EnvoyReconcile ==
    /\ call = NoCall
    /\ \E getErr \in GetErrs, stored \in Envoys, f \in EnvoyFaults :
        call' = [kind |-> "envoy", getErr |-> getErr, stored |-> stored, f |-> f,
                 out |-> envoyReconcile(getErr, stored, f)]
    /\ UNCHANGED nonRecVars

\* A request for a Gateway is reconciled.
GatewayReconcile ==
    /\ call = NoCall
    /\ \E getErr \in GetErrs, gw \in GatewayObjects, class \in GatewayClasses,
          f \in GatewayFaults :
        call' = [kind |-> "gateway", getErr |-> getErr, stored |-> gw, class |-> class,
                 f |-> f, out |-> gatewayReconcile(getErr, gw, class, f)]
    /\ UNCHANGED nonRecVars

\* A request for a Namespace is reconciled.
NamespaceReconcile ==
    /\ call = NoCall
    /\ \E getErr \in GetErrs, deleting \in BOOLEAN :
        call' = [kind |-> "namespace", getErr |-> getErr, stored |-> deleting,
                 out |-> namespaceReconcile(getErr, deleting)]
    /\ UNCHANGED nonRecVars

\* The call has returned; the next one can be made.
CallReturns ==
    /\ call # NoCall
    /\ call' = NoCall
    /\ UNCHANGED nonRecVars

RecNext ==
    \/ AggregateErrors
    \/ EnvoyReconcile
    \/ GatewayReconcile
    \/ NamespaceReconcile
    \/ CallReturns

----------------------------------------------------------------------------
\* The Service of an Envoy and the comparisons of internal/equality that say
\* whether the stored Service has to be updated.

MaxMods == 2

EnvoyServiceHTTPPort == 80
EnvoyServiceHTTPSPort == 443
EnvoyNodePortHTTPPort == 30080
EnvoyNodePortHTTPSPort == 30443

awsLbBackendProtoAnnotation == "aws-load-balancer-backend-protocol"
awsInternalLBAnnotation == "aws-load-balancer-internal"
azureInternalLBAnnotation == "azure-load-balancer-internal"
gcpLBTypeAnnotation == "load-balancer-type"

\* Annotations, labels and selectors are maps: sets of <<key, value>>.
LbAnnotations(provider) ==
    IF provider = "AWS" THEN {<<awsLbBackendProtoAnnotation, "tcp">>} ELSE {}

InternalLBAnnotations(provider) ==
    CASE provider = "AWS" -> {<<awsInternalLBAnnotation, "0.0.0.0/0">>}
      [] provider = "Azure" -> {<<azureInternalLBAnnotation, "true">>}
      [] provider = "GCP" -> {<<gcpLBTypeAnnotation, "Internal">>}
      [] OTHER -> {}

labelSelector == {<<"app", "envoy">>}

ContainerPort(name, number) == [Name |-> name, PortNumber |-> number]

\* The Envoys a Service is made for; validation has accepted their ports.
ServiceEnvoys ==
    {[Name |-> "envoy-1", Namespace |-> "projectcontour", Type |-> t[1],
      Provider |-> t[2], Scope |-> t[3],
      ContainerPorts |-> <<ContainerPort("http", 8080), ContainerPort("debug", 9001),
                           ContainerPort("https", 8443)>>] :
        t \in {<<"LoadBalancerService", "", "External">>,
               <<"LoadBalancerService", "AWS", "Internal">>,
               <<"NodePortService", "", "External">>,
               <<"ClusterIPService", "", "External">>}}

\* DesiredService: one Service port per container port named http or https,
\* the owner labels, and what the publishing type adds.
DesiredService(envoy) ==
    LET named == SelectSeq(envoy.ContainerPorts,
                           LAMBDA port : port.Name \in {"http", "https"})
        ports == [i \in 1..Len(named) |->
                    [Name |-> named[i].Name,
                     Port |-> IF named[i].Name = "http" THEN EnvoyServiceHTTPPort
                              ELSE EnvoyServiceHTTPSPort,
                     Protocol |-> "TCP",
                     TargetPort |-> named[i].PortNumber,
                     NodePort |-> 0]]
        epType == envoy.Type
        provider == envoy.Provider
    IN  [owner |-> <<envoy.Name, envoy.Namespace>>,
         Annotations |->
            IF epType = "LoadBalancerService"
            THEN LbAnnotations(provider)
                 \cup (IF envoy.Scope = "Internal" THEN InternalLBAnnotations(provider)
                       ELSE {})
            ELSE {},
         Ports |-> IF epType = "NodePortService"
                   THEN [ports EXCEPT ![1].NodePort = EnvoyNodePortHTTPPort,
                                      ![2].NodePort = EnvoyNodePortHTTPSPort]
                   ELSE ports,
         Selector |-> labelSelector,
         SessionAffinity |-> "None",
         ExternalTrafficPolicy |->
            IF epType \in {"LoadBalancerService", "NodePortService"} THEN "Local" ELSE "",
         Type |-> CASE epType = "LoadBalancerService" -> "LoadBalancer"
                    [] epType = "NodePortService" -> "NodePort"
                    [] epType = "ClusterIPService" -> "ClusterIP"
                    [] OTHER -> "",
         ClusterIP |-> "",
         HealthCheckNodePort |-> 0]

\* What a comparison hands back: (nil, false), (updated, true), or no return
\* at all when it indexes a list out of range.
Unchanged == [updated |-> <<>>, changed |-> FALSE, panic |-> FALSE]
Changed(updated) == [updated |-> <<updated>>, changed |-> TRUE, panic |-> FALSE]
Panics == [updated |-> <<>>, changed |-> FALSE, panic |-> TRUE]

\* A comparison that looks at the cluster IP as well.
ClusterIPServiceChanged_WithClusterIP(current, expected) ==
    IF current = expected THEN Unchanged ELSE Changed(expected)

\* equality.ClusterIPServiceChanged
ClusterIPServiceChanged(current, expected) ==
    LET ports == \/ Len(current.Ports) # Len(expected.Ports)
                 \/ current.Ports # expected.Ports
        selector == current.Selector # expected.Selector
        affinity == current.SessionAffinity # expected.SessionAffinity
        type == current.Type # expected.Type
        updated == [current EXCEPT
                        !.Ports = IF ports THEN expected.Ports ELSE @,
                        !.Selector = IF selector THEN expected.Selector ELSE @,
                        !.SessionAffinity = IF affinity THEN expected.SessionAffinity
                                            ELSE @,
                        !.Type = IF type THEN expected.Type ELSE @]
    IN  IF ports \/ selector \/ affinity \/ type THEN Changed(updated) ELSE Unchanged

\* The fields of a port LoadBalancerServiceChanged compares: not the nodePort.
PortFieldsDiffer(p, q) ==
    \/ p.Name # q.Name
    \/ p.Protocol # q.Protocol
    \/ p.Port # q.Port
    \/ p.TargetPort # q.TargetPort

\* A comparison that sees the ports have changed and leaves them as they are.
LoadBalancerServiceChanged_PortsKept(current, expected) ==
    IF current = expected THEN Unchanged
    ELSE Changed([expected EXCEPT !.Ports = current.Ports])

\* equality.LoadBalancerServiceChanged
LoadBalancerServiceChanged(current, expected) ==
    LET count == Len(current.Ports) # Len(expected.Ports)
        fields == /\ ~count
                  /\ \E i \in 1..Len(current.Ports) :
                        PortFieldsDiffer(current.Ports[i], expected.Ports[i])
        selector == current.Selector # expected.Selector
        policy == current.ExternalTrafficPolicy # expected.ExternalTrafficPolicy
        affinity == current.SessionAffinity # expected.SessionAffinity
        type == current.Type # expected.Type
        annotations == current.Annotations # expected.Annotations
        updated == [current EXCEPT
                        !.Ports = IF count THEN expected.Ports
                                  ELSE [i \in 1..Len(current.Ports) |->
                                          [@[i] EXCEPT
                                             !.Name = expected.Ports[i].Name,
                                             !.Protocol = expected.Ports[i].Protocol,
                                             !.Port = expected.Ports[i].Port,
                                             !.TargetPort = expected.Ports[i].TargetPort]],
                        !.Selector = IF selector THEN expected.Selector ELSE @,
                        !.ExternalTrafficPolicy =
                            IF policy THEN expected.ExternalTrafficPolicy ELSE @,
                        !.SessionAffinity = IF affinity THEN expected.SessionAffinity
                                            ELSE @,
                        !.Type = IF type THEN expected.Type ELSE @,
                        !.Annotations = IF annotations THEN expected.Annotations ELSE @]
    IN  IF count \/ fields \/ selector \/ policy \/ affinity \/ type \/ annotations
        THEN Changed(updated)
        ELSE Unchanged

\* equality.NodePortServiceChanged: the loop over the current ports indexes
\* the expected ports, which fails when there are fewer of them.
NodePortServiceChanged(current, expected) ==
    IF Len(current.Ports) > Len(expected.Ports) THEN Panics
    ELSE
    LET count == Len(current.Ports) # Len(expected.Ports)
        port == \E i \in 1..Len(current.Ports) : current.Ports[i] # expected.Ports[i]
        selector == current.Selector # expected.Selector
        policy == current.ExternalTrafficPolicy # expected.ExternalTrafficPolicy
        affinity == current.SessionAffinity # expected.SessionAffinity
        type == current.Type # expected.Type
        annotations == current.Annotations # expected.Annotations
        updated == [current EXCEPT
                        !.Ports = IF count \/ port THEN expected.Ports ELSE @,
                        !.Selector = IF selector THEN expected.Selector ELSE @,
                        !.ExternalTrafficPolicy =
                            IF policy THEN expected.ExternalTrafficPolicy ELSE @,
                        !.SessionAffinity = IF affinity THEN expected.SessionAffinity
                                            ELSE @,
                        !.Type = IF type THEN expected.Type ELSE @,
                        !.Annotations = IF annotations THEN expected.Annotations ELSE @]
    IN  IF count \/ port \/ selector \/ policy \/ affinity \/ type \/ annotations
        THEN Changed(updated)
        ELSE Unchanged

ServiceChanged(fn, current, expected) ==
    CASE fn = "ClusterIP" -> ClusterIPServiceChanged(current, expected)
      [] fn = "LoadBalancer" -> LoadBalancerServiceChanged(current, expected)
      [] fn = "NodePort" -> NodePortServiceChanged(current, expected)
\* The ways a stored Service comes to differ from the desired one: fields the
\* API server assigns and edits made by others.
Mutations ==
    <<"clusterIP", "healthCheckNodePort", "nodePort", "portNumber", "targetPort",
      "portName", "portProtocol", "portsAdded", "portsRemoved", "selector",
      "serviceType", "sessionAffinity", "externalTrafficPolicy", "annotations">>

ServiceMutated(svc, m) ==
    LET first(field, v) ==
            IF Len(svc.Ports) = 0 THEN svc
            ELSE [svc EXCEPT !.Ports[1] = [@ EXCEPT ![field] = v]]
    IN  CASE m = "clusterIP" -> [svc EXCEPT !.ClusterIP = "1.2.3.4"]
          [] m = "healthCheckNodePort" -> [svc EXCEPT !.HealthCheckNodePort = 31000]
          [] m = "nodePort" -> first("NodePort", 1234)
          [] m = "portNumber" -> first("Port", 1234)
          [] m = "targetPort" -> first("TargetPort", 1234)
          [] m = "portName" -> first("Name", "foo")
          [] m = "portProtocol" -> first("Protocol", "UDP")
          [] m = "portsAdded" ->
                [svc EXCEPT !.Ports = Append(@, [Name |-> "foo", Protocol |-> "UDP",
                                                  Port |-> 1234, TargetPort |-> 1234,
                                                  NodePort |-> 0])]
          [] m = "portsRemoved" -> [svc EXCEPT !.Ports = <<>>]
          [] m = "selector" -> [svc EXCEPT !.Selector = {<<"foo", "bar">>}]
          [] m = "serviceType" ->
                [svc EXCEPT !.Type = IF @ = "ClusterIP" THEN "LoadBalancer"
                                     ELSE "ClusterIP"]
          [] m = "sessionAffinity" -> [svc EXCEPT !.SessionAffinity = "ClientIP"]
          [] m = "externalTrafficPolicy" ->
                [svc EXCEPT !.ExternalTrafficPolicy = IF @ = "Cluster" THEN "Local"
                                                      ELSE "Cluster"]
          [] m = "annotations" -> [svc EXCEPT !.Annotations = {<<"foo", "bar">>}]

\* The mutations of a set, made one after the other.
RECURSIVE MutateAll(_, _, _)
MutateAll(svc, ms, i) ==
    IF i > Len(Mutations) THEN svc
    ELSE MutateAll(IF Mutations[i] \in ms THEN ServiceMutated(svc, Mutations[i]) ELSE svc,
                   ms, i + 1)

MutationSets == {ms \in SUBSET Range(Mutations) : Cardinality(ms) <= MaxMods}

NoComparison == [stage |-> "empty"]

EqInit == cmp = NoComparison

\* A pair of Services is handed to one of the comparisons.
CmpLoad ==
    /\ cmp.stage = "empty"
    /\ \E fn \in {"ClusterIP", "LoadBalancer", "NodePort"}, envoy \in ServiceEnvoys,
          ms \in MutationSets :
        cmp' = [stage |-> "loaded", fn |-> fn, mutations |-> ms,
                expected |-> DesiredService(envoy),
                current |-> MutateAll(DesiredService(envoy), ms, 1),
                first |-> <<>>, second |-> <<>>]
    /\ UNCHANGED nonEqVars

\* The comparison is made.
CmpFirst ==
    /\ cmp.stage = "loaded"
    /\ cmp' = [cmp EXCEPT !.stage = "compared",
                          !.first = ServiceChanged(cmp.fn, cmp.current, cmp.expected)]
    /\ UNCHANGED nonEqVars

\* The comparison is made again, on the Service the first one handed back.
CmpSecond ==
    /\ cmp.stage = "compared"
    /\ cmp.first.changed
    /\ cmp' = [cmp EXCEPT !.stage = "recompared",
                          !.second = ServiceChanged(cmp.fn, cmp.first.updated[1],
                                                    cmp.expected)]
    /\ UNCHANGED nonEqVars

CmpDone ==
    /\ cmp.stage \in {"compared", "recompared"}
    /\ cmp' = NoComparison
    /\ UNCHANGED nonEqVars

EqNext ==
    \/ CmpLoad
    \/ CmpFirst
    \/ CmpSecond
    \/ CmpDone

----------------------------------------------------------------------------
\* The Service of one Envoy in the object store, as EnsureService and the
\* deletion path of the Envoy reconciler leave it.

MaxRuns == 3

\* ownerLabels
ownerLabels(envoy) == <<envoy.Name, envoy.Namespace>>

\* What the API server stores for a Service written without them: a cluster
\* IP, node ports for the types that have them, a health check node port.
ServerAssigned(svc) ==
    [svc EXCEPT
        !.ClusterIP = "10.0.0.1",
        !.Ports = [i \in 1..Len(@) |->
                     IF svc.Type \in {"LoadBalancer", "NodePort"} /\ @[i].NodePort = 0
                     THEN [@[i] EXCEPT !.NodePort = 31000 + i]
                     ELSE @[i]],
        !.HealthCheckNodePort =
            IF svc.Type = "LoadBalancer" /\ svc.ExternalTrafficPolicy = "Local"
            THEN 32000 ELSE 0]

\* A Service with the same name that another owner made.
ForeignService(envoy) ==
    [ServerAssigned(DesiredService(envoy)) EXCEPT !.owner = <<"other", envoy.Namespace>>,
                                                   !.Type = "ClusterIP"]

\* The edits others make to the stored Service.
ServiceEdits == {"nodePort", "targetPort", "portsAdded", "serviceType", "annotations"}

\* updateServiceIfNeeded: the comparison of the Envoy's publishing type.
ComparisonOf(envoy) ==
    CASE envoy.Type = "NodePortService" -> "NodePort"
      [] envoy.Type = "ClusterIPService" -> "ClusterIP"
      [] OTHER -> "LoadBalancer"

\* What the client calls of one run hand back, given the store and the call
\* that fails, if one does.
ClientResults(envoy, store, fault) ==
    LET found == store # <<>>
        compared == IF found
                    THEN ServiceChanged(ComparisonOf(envoy), store[1], DesiredService(envoy))
                    ELSE Unchanged
    IN  [svcGet |-> IF fault = "get" THEN StatusTimeout
                    ELSE IF found THEN NoErr ELSE StatusNotFound,
         validate |-> NoErr,
         svcWrite |-> IF fault = "write" THEN StatusTimeout ELSE NoErr,
         update |-> IF fault = "finalize" THEN StatusTimeout ELSE NoErr,
         owned |-> found /\ store[1].owner = ownerLabels(envoy),
         changed |-> compared.changed,
         panic |-> compared.panic]

\* The store after the writes of a run.
RECURSIVE StoreAfter(_, _, _)
StoreAfter(store, envoy, writes) ==
    IF writes = <<>> THEN store
    ELSE StoreAfter(
            CASE Head(writes) \in {"Create Service", "Update Service"} ->
                    <<ServerAssigned(DesiredService(envoy))>>
              [] Head(writes) = "Delete Service" -> <<>>
              [] OTHER -> store,
            envoy, Tail(writes))

SvcInit == svcEnvoy = <<>> /\ svcStore = <<>> /\ svcLast = <<>> /\ svcRuns = 0

\* An Envoy is read, with or without its finalizer; a Service of another owner
\* may be there.
SvcLoad ==
    /\ svcEnvoy = <<>>
    /\ \E envoy \in ServiceEnvoys, foreign \in BOOLEAN, finalized \in BOOLEAN :
        /\ svcEnvoy' = <<[Name |-> envoy.Name, Namespace |-> envoy.Namespace,
                          Type |-> envoy.Type, Provider |-> envoy.Provider,
                          Scope |-> envoy.Scope, ContainerPorts |-> envoy.ContainerPorts,
                          deleting |-> FALSE, finalized |-> finalized]>>
        /\ svcStore' = IF foreign THEN <<ForeignService(envoy)>> ELSE <<>>
    /\ UNCHANGED <<svcLast, svcRuns>>
    /\ UNCHANGED nonSvcVars

\* ensureEnvoy runs for the Envoy: EnsureService against the store.
EnsureServiceRun ==
    /\ svcEnvoy # <<>>
    /\ svcEnvoy[1].finalized
    /\ ~svcEnvoy[1].deleting
    /\ svcRuns < MaxRuns
    /\ \E fault \in {"none", "get", "write"} :
        LET envoy == svcEnvoy[1]
            f == ClientResults(envoy, svcStore, fault)
            out == IF f.svcGet = NoErr /\ f.owned /\ f.panic
                   THEN [err |-> [kind |-> "panic"], writes |-> <<>>]
                   ELSE ensureEnvoy(envoy, f)
        IN  /\ svcStore' = StoreAfter(svcStore, envoy, out.writes)
            /\ svcLast' = <<[op |-> "ensure", before |-> svcStore, f |-> f, out |-> out,
                             afterSuccess |-> /\ svcLast # <<>>
                                              /\ svcLast[1].op = "ensure"
                                              /\ svcLast[1].out.err = NoErr,
                             afterFinalize |-> /\ svcLast # <<>>
                                               /\ svcLast[1].op = "finalize"
                                               /\ svcLast[1].out.err = NoErr]>>
    /\ svcRuns' = svcRuns + 1
    /\ UNCHANGED svcEnvoy
    /\ UNCHANGED nonSvcVars

\* The Envoy reconciler runs for an Envoy that has no finalizer yet and is
\* not being deleted.
FinalizeRun ==
    /\ svcEnvoy # <<>>
    /\ ~svcEnvoy[1].finalized
    /\ ~svcEnvoy[1].deleting
    /\ svcRuns < MaxRuns
    /\ \E fault \in {"none", "finalize"} :
        LET envoy == svcEnvoy[1]
            f == ClientResults(envoy, svcStore, fault)
            r == envoyReconcile(NoErr, envoy, f)
        IN  /\ svcStore' = StoreAfter(svcStore, envoy, r.writes)
            /\ svcEnvoy' = <<[envoy EXCEPT !.finalized =
                                "Update Envoy finalizers" \in Range(r.writes)]>>
            /\ svcLast' = <<[op |-> "finalize", before |-> svcStore, f |-> f,
                             out |-> [err |-> r.result.err, writes |-> r.writes]]>>
    /\ svcRuns' = svcRuns + 1
    /\ UNCHANGED nonSvcVars

\* Someone else edits the Service a run has left in the store.
ServiceEdited ==
    /\ svcStore # <<>>
    /\ svcLast # <<>>
    /\ svcLast[1].op = "ensure"
    /\ \E m \in ServiceEdits :
        /\ svcStore' = <<ServiceMutated(svcStore[1], m)>>
        /\ svcLast' = <<[op |-> "edit", before |-> svcStore, mutation |-> m]>>
    /\ UNCHANGED <<svcEnvoy, svcRuns>>
    /\ UNCHANGED nonSvcVars

\* The Envoy gets a deletion timestamp.
EnvoyDeleted ==
    /\ svcEnvoy # <<>>
    /\ ~svcEnvoy[1].deleting
    /\ svcEnvoy' = <<[svcEnvoy[1] EXCEPT !.deleting = TRUE]>>
    /\ UNCHANGED <<svcStore, svcLast, svcRuns>>
    /\ UNCHANGED nonSvcVars

\* ensureEnvoyDeleted runs for the Envoy: the Service is deleted and the
\* finalizer removed.
EnsureEnvoyDeletedRun ==
    /\ svcEnvoy # <<>>
    /\ svcEnvoy[1].deleting
    /\ svcEnvoy[1].finalized
    /\ svcRuns < MaxRuns
    /\ \E fault \in {"none", "get", "write", "finalize"} :
        LET envoy == svcEnvoy[1]
            f == ClientResults(envoy, svcStore, fault)
            out == ensureEnvoyDeleted(envoy, f)
        IN  /\ svcStore' = StoreAfter(svcStore, envoy, out.writes)
            /\ svcEnvoy' = <<[envoy EXCEPT !.finalized =
                                IF "Update Envoy finalizers" \in Range(out.writes)
                                THEN FALSE ELSE @]>>
            /\ svcLast' = <<[op |-> "delete", before |-> svcStore, f |-> f, out |-> out]>>
    /\ svcRuns' = svcRuns + 1
    /\ UNCHANGED nonSvcVars

SvcNext ==
    \/ SvcLoad
    \/ EnsureServiceRun
    \/ FinalizeRun
    \/ ServiceEdited
    \/ EnvoyDeleted
    \/ EnsureEnvoyDeletedRun
----------------------------------------------------------------------------
\* Validation of an Envoy (its namespace and its container ports), of the
\* listeners of a Gateway and of a GatewayClass.

MaxPorts == 3
MaxGatewayListeners == 3
MaxItems == 2

ContourGatewayClass == "projectcontour.io/contour"

\* The container port lists of an Envoy.
ContainerPortChoices ==
    {ContainerPort(name, number) : name \in {"http", "https", "debug"},
                                   number \in {8080, 8443, 9001}}

ContainerPortLists == UNION {[1..n -> ContainerPortChoices] : n \in 0..MaxPorts}

\* containerPorts that stops at a duplicate number and accepts any names.
RECURSIVE containerPorts_NamesUnchecked(_, _, _)
containerPorts_NamesUnchecked(ports, numsFound, namesFound) ==
    IF ports = <<>>
    THEN IF "http" \in namesFound /\ "https" \in namesFound THEN NoErr
         ELSE Plain("http and https container ports are unspecified")
    ELSE IF Head(ports).PortNumber \in numsFound
    THEN Plain("duplicate container port number")
    ELSE containerPorts_NamesUnchecked(Tail(ports),
                                       numsFound \cup {Head(ports).PortNumber},
                                       namesFound \cup {Head(ports).Name})

\* containerPorts: the loop over the list with the numbers and names found so
\* far, then the test that http and https were both seen.
RECURSIVE containerPorts(_, _, _)
containerPorts(ports, numsFound, namesFound) ==
    IF ports = <<>>
    THEN IF "http" \in namesFound /\ "https" \in namesFound THEN NoErr
         ELSE Plain("http and https container ports are unspecified")
    ELSE IF Head(ports).PortNumber \in numsFound
    THEN Plain("duplicate container port number")
    ELSE IF Head(ports).Name \in namesFound
    THEN Plain("duplicate container port name")
    ELSE containerPorts(Tail(ports), numsFound \cup {Head(ports).PortNumber},
                        namesFound \cup {Head(ports).Name})

\* The Envoys cli.List hands back, by name and namespace.
EnvoyKeys == {<<name, ns>> : name \in {"envoy-1", "envoy-2"}, ns \in {"ns-1", "ns-2"}}

EnvoyItemLists ==
    {items \in UNION {[1..n -> EnvoyKeys] : n \in 0..MaxItems} :
        \A i, j \in 1..Len(items) : i # j => items[i] # items[j]}

\* othersExist: the list, unless it is empty or holds one Envoy of the same name.
othersExist(items, envoy) ==
    IF Len(items) = 0 \/ (Len(items) = 1 /\ items[1][1] = envoy.Name)
    THEN [exist |-> FALSE, envoys |-> <<>>]
    ELSE [exist |-> TRUE, envoys |-> items]

\* OthersExistInNs that takes any other Envoy for one of the same namespace.
OthersExistInNs_AnyNamespace(listErr, items, envoy) ==
    IF listErr # NoErr THEN [exist |-> FALSE, err |-> Wrap(listErr)]
    ELSE [exist |-> \E i \in 1..Len(items) : items[i] # <<envoy.Name, envoy.Namespace>>,
          err |-> NoErr]

\* OthersExistInNs
OthersExistInNs(listErr, items, envoy) ==
    IF listErr # NoErr THEN [exist |-> FALSE, err |-> Wrap(listErr)]
    ELSE LET others == othersExist(items, envoy)
         IN  [exist |-> /\ others.exist
                        /\ \E i \in 1..Len(others.envoys) :
                            /\ ~(/\ others.envoys[i][1] = envoy.Name
                                 /\ others.envoys[i][2] = envoy.Namespace)
                            /\ others.envoys[i][2] = envoy.Namespace,
              err |-> NoErr]

\* validation.Envoy
validationEnvoy(listErr, items, envoy) ==
    LET others == OthersExistInNs(listErr, items, envoy)
    IN  IF others.err # NoErr THEN Wrap(others.err)
        ELSE IF others.exist THEN Plain("other envoys exist in namespace")
        ELSE containerPorts(envoy.ContainerPorts, {}, {})

\* The listeners of a Gateway: port, protocol, TLS configuration and the kind
\* of route they select.
Listener(port, protocol, tls, kind) ==
    [Port |-> port, Protocol |-> protocol, TLS |-> tls, Kind |-> kind]

ListenerChoices ==
    {Listener(1, "HTTP", "nil", "HTTPRoute"), Listener(2, "HTTP", "nil", "HTTPRoute"),
     Listener(1, "HTTPS", "certificate", "HTTPRoute"),
     Listener(2, "HTTPS", "certificate", "HTTPRoute"),
     Listener(2, "HTTPS", "nil", "HTTPRoute"), Listener(2, "TLS", "certificate", "HTTPRoute"),
     Listener(2, "UDP", "nil", "HTTPRoute"), Listener(2, "HTTP", "nil", "TCPRoute")}

GatewayListenerLists == UNION {[1..n -> ListenerChoices] : n \in 0..MaxGatewayListeners}

\* gatewayListeners, the loop over the listeners: the first error, if any.
\* The protocol test is a disjunction of three inequalities.
RECURSIVE listenerErrors(_)
listenerErrors(listeners) ==
    IF listeners = <<>> THEN NoErr
    ELSE LET listener == Head(listeners)
         IN  IF \/ listener.Protocol # "HTTP"
                \/ listener.Protocol # "HTTPS"
                \/ listener.Protocol # "TLS"
             THEN Plain("invalid listener protocol")
             ELSE IF listener.Protocol \in {"HTTPS", "TLS"} /\ listener.TLS = "nil"
             THEN Plain("listener TLS is required")
             ELSE IF listener.Kind # "HTTPRoute"
             THEN Plain("listener routes kind is not supported")
             ELSE listenerErrors(Tail(listeners))

\* gatewayListeners without the test on the ports of two listeners.
gatewayListeners_PortsUnchecked(listeners) ==
    IF Len(listeners) # 1 /\ Len(listeners) # 2
    THEN Plain("invalid number of listeners")
    ELSE listenerErrors(listeners)

\* gatewayListeners
gatewayListeners(listeners) ==
    LET numListeners == Len(listeners)
    IN  IF numListeners # 1 /\ numListeners # 2
        THEN Plain("invalid number of listeners")
        ELSE IF numListeners = 2 /\ listeners[1].Port = listeners[2].Port
        THEN Plain("invalid listeners, port is non-unique")
        ELSE listenerErrors(listeners)

\* A GatewayClass: its controller and its parametersRef, nil or set.
GatewayClassSpecs ==
    [Controller : {ContourGatewayClass, "foo"}, ParametersRef : {Nil, <<"foo">>}]

\* validation.GatewayClass as internal/validation/gatewayclass.go has it.
GatewayClass(gc) ==
    IF gc.ParametersRef # Nil THEN Plain("invalid parametersRef") ELSE NoErr

\* validation.GatewayClass with the test on the controller.
parameterRef(gc) ==
    NewMaybeRetryableAggregate(
        (IF gc.Controller # ContourGatewayClass THEN <<Plain("invalid controller")>>
         ELSE <<>>)
        \o (IF gc.ParametersRef # Nil THEN <<Plain("invalid parametersRef")>> ELSE <<>>))

ValInit == vcall = <<>>

\* containerPorts is called for the ports of an Envoy.
ValidateContainerPorts ==
    /\ vcall = <<>>
    /\ \E ports \in ContainerPortLists :
        vcall' = <<[kind |-> "containerPorts", ports |-> ports,
                    out |-> containerPorts(ports, {}, {})]>>
    /\ UNCHANGED nonValVars

\* The Envoy reconciler validates an Envoy that is not being deleted and
\* carries on with what validation.Envoy returned.
ValidateEnvoy ==
    /\ vcall = <<>>
    /\ \E key \in EnvoyKeys, items \in EnvoyItemLists, listErr \in {NoErr, StatusTimeout},
          ports \in {<<ContainerPort("http", 8080), ContainerPort("https", 8443)>>,
                     <<ContainerPort("http", 8080)>>},
          finalized \in BOOLEAN :
        LET envoy == [Name |-> key[1], Namespace |-> key[2], ContainerPorts |-> ports,
                      Type |-> "LoadBalancerService", deleting |-> FALSE,
                      finalized |-> finalized]
            out == validationEnvoy(listErr, items, envoy)
        IN  vcall' = <<[kind |-> "envoy", envoy |-> envoy, items |-> items,
                        listErr |-> listErr, out |-> out,
                        reconcile |-> envoyReconcile(NoErr, envoy,
                                        [validate |-> out, update |-> NoErr,
                                         svcGet |-> StatusNotFound, svcWrite |-> NoErr,
                                         owned |-> FALSE, changed |-> FALSE])]>>
    /\ UNCHANGED nonValVars

\* gatewayListeners is called for the listeners of a Gateway.
ValidateGatewayListeners ==
    /\ vcall = <<>>
    /\ \E listeners \in GatewayListenerLists :
        vcall' = <<[kind |-> "listeners", listeners |-> listeners,
                    out |-> gatewayListeners(listeners)]>>
    /\ UNCHANGED nonValVars

\* validation.GatewayClass is called, in either of the forms the source has.
ValidateGatewayClass ==
    /\ vcall = <<>>
    /\ \E gc \in GatewayClassSpecs, form \in {"gatewayclass.go", "part_003"} :
        vcall' = <<[kind |-> "gatewayclass", gc |-> gc, form |-> form,
                    out |-> IF form = "gatewayclass.go" THEN GatewayClass(gc)
                            ELSE parameterRef(gc)]>>
    /\ UNCHANGED nonValVars

\* DesiredService is built for an Envoy whose container ports validation has
\* accepted.
BuildDesiredService ==
    /\ vcall = <<>>
    /\ \E ports \in ContainerPortLists,
          epType \in {"LoadBalancerService", "NodePortService", "ClusterIPService"} :
        /\ containerPorts(ports, {}, {}) = NoErr
        /\ LET envoy == [Name |-> "envoy-1", Namespace |-> "ns-1", Type |-> epType,
                         Provider |-> "", Scope |-> "External",
                         ContainerPorts |-> ports]
           IN  vcall' = <<[kind |-> "desiredService", envoy |-> envoy,
                           out |-> containerPorts(ports, {}, {}),
                           svc |-> DesiredService(envoy)]>>
    /\ UNCHANGED nonValVars

ValidationReturns ==
    /\ vcall # <<>>
    /\ vcall' = <<>>
    /\ UNCHANGED nonValVars

ValNext ==
    \/ ValidateContainerPorts
    \/ ValidateEnvoy
    \/ ValidateGatewayListeners
    \/ ValidateGatewayClass
    \/ BuildDesiredService
    \/ ValidationReturns
----------------------------------------------------------------------------
\* The finalizers and the status conditions of one reconciled object, an
\* Envoy or a Gateway, as the API server stores them between reconciles.

MaxFinalizers == 3

EnvoyFinalizer == "envoy.projectcontour.io/finalizer"
GatewayFinalizer == "gateway.networking.x-k8s.io/finalizer"

\* Finalizers of other controllers.
OtherFinalizers == {"foregroundDeletion", "example.com/hold"}

GatewayConditionScheduled == "Scheduled"
GatewayConditionReady == "Ready"

\* slice.ContainsString
ContainsString(list, s) == \E i \in DOMAIN list : list[i] = s

\* slice.RemoveString: the strings other than s, in their order.
RemoveString(list, s) == SelectSeq(list, LAMBDA x : x # s)

\* Envoy.IsFinalized and isFinalized of the Gateway controller.
isFinalized(finalizers, finalizer) == \E i \in DOMAIN finalizers : finalizers[i] = finalizer

\* A k8s_envoy.EnsureFinalizer that appends the finalizer whether it is there
\* or not.
k8s_envoy_EnsureFinalizer_Always(finalizers, updateErr) ==
    IF updateErr # NoErr
    THEN [err |-> Wrap(updateErr), calls |-> 1, Finalizers |-> finalizers]
    ELSE [err |-> NoErr, calls |-> 1, Finalizers |-> Append(finalizers, EnvoyFinalizer)]

\* k8s_envoy.EnsureFinalizer on the finalizer list: the error, the number of
\* Update calls and the list stored afterwards.
k8s_envoy_EnsureFinalizer(finalizers, updateErr) ==
    IF ~ContainsString(finalizers, EnvoyFinalizer)
    THEN IF updateErr # NoErr
         THEN [err |-> Wrap(updateErr), calls |-> 1, Finalizers |-> finalizers]
         ELSE [err |-> NoErr, calls |-> 1,
               Finalizers |-> Append(finalizers, EnvoyFinalizer)]
    ELSE [err |-> NoErr, calls |-> 0, Finalizers |-> finalizers]

\* k8s_envoy.EnsureFinalizerRemoved on the finalizer list.
k8s_envoy_EnsureFinalizerRemoved(finalizers, updateErr) ==
    IF ContainsString(finalizers, EnvoyFinalizer)
    THEN IF updateErr # NoErr
         THEN [err |-> Wrap(updateErr), calls |-> 1, Finalizers |-> finalizers]
         ELSE [err |-> NoErr, calls |-> 1,
               Finalizers |-> RemoveString(finalizers, EnvoyFinalizer)]
    ELSE [err |-> NoErr, calls |-> 0, Finalizers |-> finalizers]

\* ensureFinalizer of the Gateway controller, on the finalizer list.
ensureFinalizer(finalizers, updateErr) ==
    IF ~ContainsString(finalizers, GatewayFinalizer)
    THEN IF updateErr # NoErr
         THEN [err |-> Wrap(updateErr), calls |-> 1, Finalizers |-> finalizers]
         ELSE [err |-> NoErr, calls |-> 1,
               Finalizers |-> Append(finalizers, GatewayFinalizer)]
    ELSE [err |-> NoErr, calls |-> 0, Finalizers |-> finalizers]

\* removeGatewayCondition: the conditions of another type, in their order.
removeGatewayCondition(conditions, condType) ==
    SelectSeq(conditions, LAMBDA c : c.Type # condType)

\* computeGatewayReadyCondition
computeGatewayReadyCondition(valid) ==
    [Type |-> GatewayConditionReady, Status |-> IF valid THEN "True" ELSE "False"]

\* mergeConditions: the update replaces the condition of its type, or is
\* appended when there is none.
mergeConditions(conditions, update) ==
    IF \E i \in DOMAIN conditions : conditions[i].Type = update.Type
    THEN [i \in DOMAIN conditions |->
            IF conditions[i].Type = update.Type THEN update ELSE conditions[i]]
    ELSE Append(conditions, update)

\* equality.GatewayStatusChanged
GatewayStatusChanged(current, expected) == current # expected

\* The status SyncGateway wants for the Gateway.
DesiredGatewayStatus(conditions, valid) ==
    mergeConditions(removeGatewayCondition(conditions, GatewayConditionScheduled),
                    computeGatewayReadyCondition(valid))

\* A status.SyncGateway that updates the status whether it changed or not.
status_SyncGateway_Always(conditions, valid, updateErr) ==
    LET updated == DesiredGatewayStatus(conditions, valid)
    IN  IF updateErr # NoErr
        THEN [err |-> NewMaybeRetryableAggregate(<<Wrap(updateErr)>>), calls |-> 1,
              Conditions |-> conditions]
        ELSE [err |-> NoErr, calls |-> 1, Conditions |-> updated]

\* status.SyncGateway on the conditions of the Gateway: the error, the number
\* of status Update calls and the conditions stored afterwards.
status_SyncGateway(conditions, valid, updateErr) ==
    LET updated == DesiredGatewayStatus(conditions, valid)
    IN  IF GatewayStatusChanged(conditions, updated)
        THEN IF updateErr # NoErr
             THEN [err |-> NewMaybeRetryableAggregate(<<Wrap(updateErr)>>), calls |-> 1,
                   Conditions |-> conditions]
             ELSE [err |-> NoErr, calls |-> 1, Conditions |-> updated]
        ELSE [err |-> NoErr, calls |-> 0, Conditions |-> conditions]

ObjFaults == {"none", "update", "status", "service"}

\* envoyReconciler.Reconcile, for what it does to the stored Envoy.
ReconcileEnvoyObject(o, fault) ==
    LET updateErr == IF fault = "update" THEN StatusTimeout ELSE NoErr
        same == [obj |-> o, err |-> NoErr, updates |-> 0, statusUpdates |-> 0]
    IN  IF ~o.deleting
        THEN IF ~o.valid
             THEN [same EXCEPT !.err = Wrap(Plain("invalid"))]
             ELSE IF ~isFinalized(o.Finalizers, EnvoyFinalizer)
             THEN LET e == k8s_envoy_EnsureFinalizer(o.Finalizers, updateErr)
                  IN  [obj |-> [o EXCEPT !.Finalizers = e.Finalizers], err |-> e.err,
                       updates |-> e.calls, statusUpdates |-> 0]
             ELSE IF fault = "service"
             THEN [same EXCEPT !.err = Wrap(StatusTimeout)]
             ELSE same
        ELSE IF fault = "service"
        THEN [same EXCEPT !.err = Wrap(StatusTimeout)]
        ELSE LET e == k8s_envoy_EnsureFinalizerRemoved(o.Finalizers, updateErr)
             IN  [obj |-> [o EXCEPT !.Finalizers = e.Finalizers],
                  err |-> IF e.err # NoErr THEN Wrap(e.err) ELSE NoErr,
                  updates |-> e.calls, statusUpdates |-> 0]

\* gatewayReconciler.Reconcile, for what it does to the stored Gateway.
ReconcileGatewayObject(o, fault) ==
    LET updateErr == IF fault = "update" THEN StatusTimeout ELSE NoErr
        statusErr == IF fault = "status" THEN StatusTimeout ELSE NoErr
        same == [obj |-> o, err |-> NoErr, updates |-> 0, statusUpdates |-> 0]
    IN  IF o.deleting
        THEN same
        ELSE LET e == IF o.valid /\ ~isFinalized(o.Finalizers, GatewayFinalizer)
                      THEN ensureFinalizer(o.Finalizers, updateErr)
                      ELSE [err |-> NoErr, calls |-> 0, Finalizers |-> o.Finalizers]
                 s == status_SyncGateway(o.Conditions, o.valid, statusErr)
             IN  IF e.err # NoErr
                 THEN [same EXCEPT !.err = Wrap(e.err), !.updates = e.calls]
                 ELSE [obj |-> [o EXCEPT !.Finalizers = e.Finalizers,
                                         !.Conditions = s.Conditions],
                       err |-> IF s.err # NoErr THEN Wrap(s.err) ELSE NoErr,
                       updates |-> e.calls, statusUpdates |-> s.calls]

\* The finalizer of the controller of the kind.
ControllerFinalizer(kind) == IF kind = "Envoy" THEN EnvoyFinalizer ELSE GatewayFinalizer

\* The finalizer lists an object is read with.
FinalizerLists(kind) ==
    {<<>>, <<ControllerFinalizer(kind)>>, <<"foregroundDeletion">>,
     <<"foregroundDeletion", ControllerFinalizer(kind)>>,
     <<ControllerFinalizer(kind), "example.com/hold">>,
     <<"example.com/hold", "foregroundDeletion">>}

\* The conditions a Gateway is read with: none, the default one, or what an
\* earlier sync left.
ConditionLists ==
    {<<>>,
     <<[Type |-> GatewayConditionScheduled, Status |-> "False"]>>,
     <<[Type |-> GatewayConditionReady, Status |-> "True"]>>,
     <<[Type |-> GatewayConditionReady, Status |-> "False"]>>,
     <<[Type |-> GatewayConditionScheduled, Status |-> "False"],
       [Type |-> GatewayConditionReady, Status |-> "False"]>>}

ObjInit == obj = <<>> /\ objLast = <<>>

\* The object is read.
ObjLoad ==
    /\ obj = <<>>
    /\ \E kind \in {"Envoy", "Gateway"}, valid \in BOOLEAN :
        \E finalizers \in FinalizerLists(kind),
           conditions \in IF kind = "Gateway" THEN ConditionLists ELSE {<<>>} :
            obj' = <<[kind |-> kind, Finalizers |-> finalizers, deleting |-> FALSE,
                      valid |-> valid, Conditions |-> conditions]>>
    /\ UNCHANGED objLast
    /\ UNCHANGED nonObjVars

\* The reconciler of the kind runs for the object.
ObjReconcile ==
    /\ obj # <<>>
    /\ \E fault \in ObjFaults :
        LET r == IF obj[1].kind = "Envoy"
                 THEN ReconcileEnvoyObject(obj[1], fault)
                 ELSE ReconcileGatewayObject(obj[1], fault)
        IN  /\ obj' = <<r.obj>>
            /\ objLast' = <<[before |-> obj[1], fault |-> fault, err |-> r.err,
                             updates |-> r.updates, statusUpdates |-> r.statusUpdates]>>
    /\ UNCHANGED nonObjVars

\* The object gets a deletion timestamp.
ObjDeleted ==
    /\ obj # <<>>
    /\ ~obj[1].deleting
    /\ obj' = <<[obj[1] EXCEPT !.deleting = TRUE]>>
    /\ objLast' = <<>>
    /\ UNCHANGED nonObjVars

\* The spec of the object is edited: it becomes valid, or invalid.
ObjSpecEdited ==
    /\ obj # <<>>
    /\ ~obj[1].deleting
    /\ obj' = <<[obj[1] EXCEPT !.valid = ~@]>>
    /\ objLast' = <<>>
    /\ UNCHANGED nonObjVars

\* Another controller adds its finalizer, or removes it.
ObjOtherFinalizer ==
    /\ obj # <<>>
    /\ \E other \in OtherFinalizers :
        IF ContainsString(obj[1].Finalizers, other)
        THEN obj' = <<[obj[1] EXCEPT !.Finalizers = RemoveString(@, other)]>>
        ELSE /\ Len(obj[1].Finalizers) < MaxFinalizers
             /\ obj' = <<[obj[1] EXCEPT !.Finalizers = Append(@, other)]>>
    /\ objLast' = <<>>
    /\ UNCHANGED nonObjVars

ObjNext ==
    \/ ObjLoad
    \/ ObjReconcile
    \/ ObjDeleted
    \/ ObjSpecEdited
    \/ ObjOtherFinalizer
Init ==
    /\ StatusInit /\ SchedInit /\ SnapInit /\ FltInit /\ DagInit /\ RecInit
    /\ EqInit /\ SvcInit /\ ValInit /\ ObjInit

SpecStatus == Init /\ [][StatusNext]_vars

SpecSched == Init /\ [][SchedNext]_vars

SpecSnap == Init /\ [][SnapNext]_vars

SpecSelector == Init /\ [][FltNext]_vars

SpecDag == Init /\ [][DagNext]_vars

SpecReconcile == Init /\ [][RecNext]_vars

SpecEquality == Init /\ [][EqNext]_vars

SpecService == Init /\ [][SvcNext]_vars

SpecValidation == Init /\ [][ValNext]_vars

SpecObject == Init /\ [][ObjNext]_vars

\* A failed reconcile is requeued and the client calls succeed in the end:
\* a reconcile in which no call fails is not postponed for ever.
ObjReconcileSucceeds == ObjReconcile /\ objLast'[1].fault = "none"

FairSpecObject == SpecObject /\ WF_vars(ObjReconcileSucceeds)

\* Timers fire, a started rebuild completes, and time passes.
FairSpecSched ==
    /\ Init /\ [][SchedNext]_vars
    /\ WF_vars(TimerFires) /\ WF_vars(RebuildDone) /\ WF_vars(Tick)

----------------------------------------------------------------------------
\* Claims about the status commit (checked under SpecStatus).

\* The positions of the stored conditions of type t.
IndexesOf(conds, t) == {i \in 1..Len(conds) : conds[i].type = t}

\* The update of the last Mutate call and the conditions it was applied to.
LastEu == updates[lastMutate.eu]
LastBefore == lastMutate.before

\* C1: EnvoyUpdate.Mutate never overwrites a stored condition that is newer
\* than the update. For every condition type staged in the update (generation
\* G1): a stored condition of that type with observedGeneration G2 > G1 is left
\* exactly as it was; when none is stored the staged one is appended; when
\* G2 <= G1 the stored one is replaced by the staged one. Conditions of types
\* the update did not stage are left alone.
C1_MutateKeepsNewer ==
    lastMutate # NoMutate =>
        /\ Len(envoyConditions) >= Len(LastBefore)
        /\ \A t \in CondTypes : Cardinality(IndexesOf(envoyConditions, t)) <= 1
        /\ \A t \in CondTypes \ Staged(LastEu) :
              \A i \in IndexesOf(LastBefore, t) : envoyConditions[i] = LastBefore[i]
        /\ \A t \in Staged(LastEu) :
              IF IndexesOf(LastBefore, t) = {}
              THEN \E i \in (Len(LastBefore) + 1)..Len(envoyConditions) :
                      envoyConditions[i] = Stamped(LastEu, t)
              ELSE \A i \in IndexesOf(LastBefore, t) :
                      IF LastBefore[i].observedGeneration > LastEu.Generation
                      THEN envoyConditions[i] = LastBefore[i]
                      ELSE envoyConditions[i] = Stamped(LastEu, t)

\* C1's case: the last Mutate met a stored condition newer than its update,
\* appended a condition of a type not stored, or replaced an older one.
C1_Witness_StaleMet ==
    /\ lastMutate # NoMutate
    /\ \E t \in Staged(LastEu) : \E i \in IndexesOf(LastBefore, t) :
          /\ LastBefore[i].observedGeneration > LastEu.Generation
          /\ LastBefore[i] # Stamped(LastEu, t)
    /\ \E t \in Staged(LastEu) : IndexesOf(LastBefore, t) = {}

\* The positions of appliedLog whose update staged a condition of type t.
AppliedFor(t) == {k \in 1..Len(appliedLog) : t \in Staged(updates[appliedLog[k]])}
GenerationAt(k) == updates[appliedLog[k]].Generation

\* The stored observedGeneration of type t, 0 when none is stored.
StoredGeneration(conds, t) ==
    IF IndexesOf(conds, t) = {} THEN 0
    ELSE conds[CHOOSE i \in IndexesOf(conds, t) : TRUE].observedGeneration

\* Two updates of generations G1 < G2 that both staged type t have been applied,
\* in either order, and no other applied update staged t at G2 or above: the
\* stored condition of type t is the one staged at G2.
C2_NewerWins ==
    \A t \in CondTypes : \A a, b \in AppliedFor(t) :
        ( /\ GenerationAt(a) < GenerationAt(b)
          /\ \A k \in AppliedFor(t) \ {b} : GenerationAt(k) < GenerationAt(b) )
        => \E i \in IndexesOf(envoyConditions, t) :
              envoyConditions[i] = Stamped(updates[appliedLog[b]], t)

\* No step lowers the stored observedGeneration of a condition type.
C2_NoRegressionStep ==
    \A t \in CondTypes :
        StoredGeneration(envoyConditions', t) >= StoredGeneration(envoyConditions, t)

C3_TransitionTimeOnlyOnChange ==
    lastMutate # NoMutate =>
        \A t \in Staged(LastEu) : \A i \in IndexesOf(LastBefore, t) :
            ( /\ LastBefore[i].observedGeneration <= LastEu.Generation
              /\ LastBefore[i].status = LastEu.Conditions[t].status )
            => envoyConditions[i].lastTransitionTime = LastBefore[i].lastTransitionTime

----------------------------------------------------------------------------
\* Claims about the debounced scheduler (checked under SpecSched, the
\* liveness claim under FairSpecSched).

\* C4: a burst of notifications that starts when the scheduler is Idle, in
\* which each notification arrives within the short holdoff of the previous one
\* and all within the maximum holdoff of the first, triggers exactly one DAG
\* rebuild: until it starts the scheduler is Holding with the whole burst in
\* its window, and once it has started (on Holding -> Draining) it is the only
\* rebuild since the burst began and covers every notification received since
\* the scheduler left Idle.
C4_BurstOneRebuild ==
    (received > 0 /\ burst.idle) =>
        /\ burst.rebuilds <= 1
        /\ burst.rebuilds = 0 =>
              /\ sched = "Holding"
              /\ hold.first = burst.first
              /\ running = 0
        /\ burst.rebuilds = 1 =>
              /\ sched # "Holding"
              /\ lastRebuild.lo = burst.first
              /\ lastRebuild.hi = received

\* C4's case: a burst of at least three notifications, spread over time, that
\* began in Idle got its one rebuild and the rebuild has completed.
C4_Witness_BurstRebuilt ==
    /\ burst.idle
    /\ burst.rebuilds = 1
    /\ received - burst.first + 1 >= 3
    /\ lastArrival > burst.start
    /\ sched = "Idle"

\* Every notification received is either covered by a rebuild already started
\* or waits in the open window or in the queue kept during Draining.
C5_Accounted ==
    /\ sched = "Idle" => lastRebuild.hi = received
    /\ sched = "Holding" => (hold.first = lastRebuild.hi + 1 /\ hold.first <= received)
    /\ sched = "Draining" => lastRebuild.hi + queued = received

\* C5: no notification is dropped by the scheduler: every notification, also
\* one that arrives while a rebuild is executing, is eventually followed by a
\* DAG rebuild that starts after it arrived and covers it.
C5_NoNotificationLost ==
    /\ []C5_Accounted
    /\ \A n \in 1..MaxNotifications : (received >= n) ~> (lastRebuild.hi >= n)

\* C5's case: a notification arrived during Draining and the rebuild of the
\* window it opened has covered it.
C5_Witness_QueuedCovered ==
    /\ rebuildCount >= 2
    /\ lastRebuild.fromQueue
    /\ lastRebuild.hi = received

\* C6: the scheduler never remains in Holding past the maximum holdoff since it
\* entered Holding, however often the short timer is reset, and the rebuild of
\* a window starts at the latest when the maximum holdoff has elapsed.
C6_MaxHoldoffBound ==
    /\ sched = "Holding" => clock - hold.start <= HoldoffMaxDelay
    /\ rebuildCount > 0 => lastRebuild.held <= HoldoffMaxDelay

\* C6's case: a stream of notifications kept resetting the short timer, and
\* the rebuild was started by the maximum timer while the short timer was not
\* due yet.
C6_Witness_MaxTimerFired ==
    /\ rebuildCount > 0
    /\ lastRebuild.held = HoldoffMaxDelay
    /\ lastRebuild.byMaxTimer

\* C7: at most one DAG rebuild executes at any time: a rebuild is running
\* exactly while the scheduler is Draining, so a new one starts only after the
\* previous one has completed.
C7_OneRebuildAtATime ==
    /\ running <= 1
    /\ running = 1 <=> sched = "Draining"

\* C7's case: notifications arrived while a second rebuild was executing.
C7_Witness_NotifiedDuringRebuild ==
    /\ running = 1
    /\ rebuildCount >= 2
    /\ queued >= 2

----------------------------------------------------------------------------
\* Claims about the snapshot cache and its observers (checked under SpecSnap).

\* C8: every OnNewDAG commits a snapshot version strictly greater than every
\* version published before, also when the DAG is unchanged; all collections
\* of the snapshot carry that one version; what an observer is handed is a
\* committed snapshot, and no observer sees a version lower than one it saw
\* before.
C8_VersionsIncrease ==
    /\ \A i, j \in 1..Len(publishLog) :
          i < j => publishLog[i].version < publishLog[j].version
    /\ Len(publishLog) > 0 => snapshotVersion = publishLog[Len(publishLog)].version
    /\ \A c \in CollectionTypes : collections[c].version = snapshotVersion
    /\ \A o \in 1..Len(Observers) :
          /\ \A k \in 1..Len(seen[o]) :
                \E i \in 1..Len(publishLog) : publishLog[i] = seen[o][k]
          /\ \A i, j \in 1..Len(seen[o]) :
                i < j => seen[o][i].version <= seen[o][j].version

\* C8's case: an unchanged DAG was published again, under another version, and
\* the last observer has seen both snapshots.
C8_Witness_UnchangedRepublished ==
    /\ \E i, j \in 1..Len(publishLog) :
          /\ i < j
          /\ publishLog[i].dag.content = publishLog[j].dag.content
          /\ publishLog[i].dag.content # {}
          /\ publishLog[i].version # publishLog[j].version
    /\ Len(seen[Len(Observers)]) >= 2

\* A DAG every processor has contributed to, from one reading of the cache.
FullyBuilt(dag) ==
    /\ dag.ran = Len(Processors)
    /\ dag.content = dag.input

\* C9: observers only ever see fully built DAGs. The published DAG, the
\* collections of the snapshot and every DAG handed to an observer are fully
\* built, and while a rebuild is in progress the DAG and snapshot published
\* before it remain the published ones.
C9_OnlyFullDagsVisible ==
    /\ publishedDag # NoDag => FullyBuilt(publishedDag)
    /\ collections = CollectionsOf(publishedDag, snapshotVersion)
    /\ \A o \in 1..Len(Observers) : \A k \in 1..Len(seen[o]) : FullyBuilt(seen[o][k].dag)
    /\ phase = "building" =>
          /\ publishedDag = build.prevDag
          /\ snapshotVersion = build.prevVersion

\* C9's case: a rebuild is half done (one processor has run, the graph holds
\* only a part of what the cache holds) while another DAG is the published one.
C9_Witness_HalfBuilt ==
    /\ phase = "building"
    /\ build.ran = 1
    /\ build.content # {}
    /\ build.content # build.input
    /\ publishedDag # NoDag
    /\ publishedDag.content # build.content

\* C10: after a snapshot version is committed every registered observer is
\* invoked, in registration order, with that snapshot; an observer's failure
\* neither keeps the observers after it from being invoked nor rolls back the
\* committed version.
C10_ObserversAllInvoked ==
    /\ \A k \in 1..Len(invoked) :
          /\ invoked[k].observer = k
          /\ seen[k] # <<>>
          /\ seen[k][Len(seen[k])].version = snapshotVersion
    /\ phase = "publishing" => Len(invoked) = nextObserver - 1
    /\ (phase # "publishing" /\ publishLog # <<>>) => Len(invoked) = Len(Observers)
    /\ publishLog # <<>> =>
          /\ snapshotVersion = publishLog[Len(publishLog)].version
          /\ publishedDag = publishLog[Len(publishLog)].dag

\* C10's case: the first observer failed, the ones after it were invoked all
\* the same, and the publish is over with its version in place.
C10_Witness_FailureThenOthers ==
    /\ phase = "idle"
    /\ Len(invoked) = Len(Observers)
    /\ ~invoked[1].ok
    /\ invoked[Len(Observers)].ok
    /\ snapshotVersion >= 2

----------------------------------------------------------------------------
\* Claims about the GatewayAPIProcessor's route selection (checked under
\* SpecSelector).

\* The object's labels contain every key/value pair of matchLabels.
ContainsEveryPair(objLabels, matchLabels) ==
    \A k \in DOMAIN matchLabels :
        \E j \in DOMAIN objLabels : j = k /\ objLabels[j] = matchLabels[k]

\* C12 as stated: a selector without matchLabels and matchExpressions
\* matches every label set, a selector with matchLabels matches exactly the
\* label sets that contain each of its pairs, and an HTTPRoute is appended to
\* validRoutes only if the selector of some listener matched its labels.
C12_SelectorMatches ==
    fltResult.stage = "done" =>
        /\ \A i \in 1..Len(fltResult.evaluated) :
            LET s == fltListeners[i]
                m == fltResult.evaluated[i]
            IN  /\ (DOMAIN s.MatchLabels = {} /\ s.MatchExpressions = <<>>) => m.matches
                /\ DOMAIN s.MatchLabels # {} =>
                        (m.matches <=> ContainsEveryPair(fltLabels, s.MatchLabels))
        /\ fltResult.valid =>
                \E i \in 1..Len(fltResult.evaluated) : fltResult.evaluated[i].matches

\* C12, amended: the equivalence holds for a selector that has matchLabels
\* and no matchExpressions; with matchExpressions the pairs are necessary and
\* every expression has to hold as well.
C12_SelectorMatchesLabelsOnly ==
    fltResult.stage = "done" =>
        /\ \A i \in 1..Len(fltResult.evaluated) :
            LET s == fltListeners[i]
                m == fltResult.evaluated[i]
            IN  /\ (DOMAIN s.MatchLabels = {} /\ s.MatchExpressions = <<>>) => m.matches
                /\ (DOMAIN s.MatchLabels # {} /\ s.MatchExpressions = <<>>) =>
                        (m.matches <=> ContainsEveryPair(fltLabels, s.MatchLabels))
                /\ (m.matches /\ DOMAIN s.MatchLabels # {}) =>
                        ContainsEveryPair(fltLabels, s.MatchLabels)
        /\ fltResult.valid =>
                \E i \in 1..Len(fltResult.evaluated) : fltResult.evaluated[i].matches
        /\ (~fltResult.valid) =>
                /\ Len(fltResult.evaluated) = Len(fltListeners)
                /\ \A i \in 1..Len(fltListeners) : ~fltResult.evaluated[i].matches

\* The first listener's matchLabels are not contained in the labels, the
\* second listener's are, and the route was selected.
C12_Witness_SecondListenerMatched ==
    /\ fltResult.stage = "done"
    /\ Len(fltResult.evaluated) = 2
    /\ DOMAIN fltListeners[1].MatchLabels # {}
    /\ fltListeners[1].MatchExpressions = <<>>
    /\ ~ContainsEveryPair(fltLabels, fltListeners[1].MatchLabels)
    /\ DOMAIN fltListeners[2].MatchLabels # {}
    /\ fltListeners[2].MatchExpressions = <<>>
    /\ fltResult.valid

----------------------------------------------------------------------------
\* Claims about GatewayAPIProcessor.Run and computeHTTPRoute (checked under
\* SpecDag).

\* Every Route of every VirtualHost of a DAG.
AllRoutes(d) == UNION {Range(d[h]) : h \in DOMAIN d}

\* The forwarding targets of a rule that name a service and a port.
CompleteTargets(rule) ==
    LET Complete(f) == f.ServiceName # <<>> /\ f.Port # <<>>
    IN  SelectSeq(rule.ForwardTo, Complete)

\* Every complete target of the rule names a Service and port of the cache.
AllResolvable(rule, namespace) ==
    \A f \in Range(CompleteTargets(rule)) :
        \E s \in KnownServices :
            s.Name = f.ServiceName[1] /\ s.Port = f.Port[1] /\ s.Namespace = namespace

\* The values of the prefix path matches of a rule, "/" for an empty value.
PrefixValues(rule) ==
    LET IsPrefix(m) == m.Type = "Prefix"
        ms == SelectSeq(rule.Matches, IsPrefix)
    IN  [i \in 1..Len(ms) |-> IF ms[i].Value = "" THEN "/" ELSE ms[i].Value]

\* The hosts a route applies to: its hostnames, or the wildcard host.
EffectiveHosts(route) ==
    IF route.Hostnames = <<>> THEN {"*"} ELSE Range(route.Hostnames)

\* C11: every Route attached to a VirtualHost references at least one
\* Cluster; a rule whose forwarding targets all lack a name or a port attaches
\* no Route and records a diagnostic; a rule with at least one complete
\* target is processed with the incomplete ones dropped.
C11_RoutesHaveClusters ==
    /\ \A r \in AllRoutes(pdag) : Len(r.Clusters) >= 1
    /\ step.kind = "rule" =>
        LET complete == CompleteTargets(step.rule)
        IN  /\ complete = <<>> =>
                /\ pdag = step.before
                /\ step.routes = <<>>
                /\ step.diags # <<>>
            /\ (complete # <<>> /\ AllResolvable(step.rule, step.route.Namespace)) =>
                /\ step.outcome = "attached"
                /\ Len(step.diags) >= Len(step.rule.ForwardTo) - Len(complete)
                /\ \A r \in Range(step.routes) :
                    /\ Len(r.Clusters) = Len(complete)
                    /\ \A i \in 1..Len(complete) :
                        /\ r.Clusters[i].Upstream.Name = complete[i].ServiceName[1]
                        /\ r.Clusters[i].Upstream.Port = complete[i].Port[1]
                    /\ \A h \in EffectiveHosts(step.route) : r \in Range(pdag[h])

\* A rule with one target without a port and one complete target attached a
\* Route with the one Cluster.
C11_Witness_IncompleteDropped ==
    /\ step.kind = "rule"
    /\ Len(step.rule.ForwardTo) = 2
    /\ Len(CompleteTargets(step.rule)) = 1
    /\ step.routes # <<>>
    /\ \E h \in DOMAIN pdag : step.routes[1] \in Range(pdag[h])

\* C13: the Clusters of a Route are de-duplicated by service, port and
\* protocol: no Route references two Clusters for the same service and port.
C13_ClustersDeduplicated ==
    \A r \in AllRoutes(pdag) :
        \A i, j \in 1..Len(r.Clusters) :
            (/\ r.Clusters[i].Upstream.Name = r.Clusters[j].Upstream.Name
             /\ r.Clusters[i].Upstream.Namespace = r.Clusters[j].Upstream.Namespace
             /\ r.Clusters[i].Upstream.Port = r.Clusters[j].Upstream.Port
             /\ r.Clusters[i].Protocol = r.Clusters[j].Protocol) => i = j

\* C14: for an accepted rule one Route is made per prefix path match, with
\* that prefix; each references all the Clusters resolved for the rule, and
\* each is attached to the VirtualHost of every host of the route (its
\* hostnames, or "*" when it has none), and to no other VirtualHost.
C14_RoutePerPrefixPerHost ==
    (/\ step.kind = "rule"
     /\ CompleteTargets(step.rule) # <<>>
     /\ AllResolvable(step.rule, step.route.Namespace)) =>
        LET prefixes == PrefixValues(step.rule)
            complete == CompleteTargets(step.rule)
        IN  /\ Len(step.routes) = Len(prefixes)
            /\ \A i \in 1..Len(prefixes) :
                /\ step.routes[i].Prefix = prefixes[i]
                /\ {c.Upstream.Name : c \in Range(step.routes[i].Clusters)}
                        = {f.ServiceName[1] : f \in Range(complete)}
                /\ \A h \in EffectiveHosts(step.route) :
                        h \in DOMAIN pdag /\ step.routes[i] \in Range(pdag[h])
            /\ \A h \in DOMAIN pdag \ EffectiveHosts(step.route) :
                        h \in DOMAIN step.before /\ pdag[h] = step.before[h]

\* A rule with two prefixes and two services was attached for a route with
\* two hostnames.
C14_Witness_TwoPrefixesTwoHosts ==
    /\ step.kind = "rule"
    /\ Len(step.routes) = 2
    /\ Len(step.routes[1].Clusters) = 2
    /\ Len(step.route.Hostnames) = 2
    /\ \A h \in Range(step.route.Hostnames) : step.routes[2] \in Range(pdag[h])

\* C15: without a Gateway in the cache Run adds nothing to the DAG, records
\* the one diagnostic and returns.
C15_NoGatewayNoChange ==
    (pc \notin {"idle", "start"} /\ ~gateway.defined) =>
        /\ pc = "done"
        /\ pdag = dagAtStart
        /\ step.diags = <<"Gateway is not defined!">>
        /\ validRoutes = <<>>
        /\ cur = NoCur

\* Run returned without a Gateway, handed a DAG that already had a
\* VirtualHost.
C15_Witness_ReturnedWithoutGateway ==
    /\ pc = "done"
    /\ ~gateway.defined
    /\ DOMAIN dagAtStart # {}
    /\ step.kind = "return"

----------------------------------------------------------------------------
\* Claims about the reconcilers and the errors they hand back (checked under
\* SpecReconcile).

\* C16: an aggregate is retryable only if every member is; the After() of a
\* retryable aggregate is the largest After() of its members; an empty list
\* of errors gives no error.
C16_AggregateRetryable ==
    call.kind = "aggregate" =>
        /\ (call.errs = <<>>) <=> (call.out = NoErr)
        /\ (call.out.kind = "retryable") <=>
                (/\ call.errs # <<>>
                 /\ \A i \in 1..Len(call.errs) : call.errs[i].kind = "retryable")
        /\ call.out.kind = "retryable" =>
                /\ \E i \in 1..Len(call.errs) : call.errs[i].after = call.out.after
                /\ \A i \in 1..Len(call.errs) : call.errs[i].after <= call.out.after

\* An aggregate of retryable errors with different backoffs, the smaller
\* one last.
C16_Witness_TwoBackoffs ==
    /\ call.kind = "aggregate"
    /\ Len(call.errs) = 2
    /\ call.errs[1] = Retryable(2)
    /\ call.errs[2] = Retryable(1)
    /\ call.out.kind = "retryable"

\* The Envoy reconcile reached the deletion of the owned Service.
DeletesService ==
    /\ call.kind = "envoy"
    /\ call.getErr = NoErr
    /\ call.stored.deleting
    /\ call.stored.Type \in {"LoadBalancerService", "NodePortService"}

\* C17: in the Envoy reconciler a retryable error from ensuring or deleting
\* the owned resources gives a result without an error and with RequeueAfter
\* set to the error's After(); any other error is returned with RequeueAfter
\* zero; success returns the empty result.
C17_RetryableRequeued ==
    DeletesService =>
        LET deleted == EnsureServiceDeleted(call.f)
        IN  /\ deleted.err.kind = "retryable" =>
                /\ call.out.result.err = NoErr
                /\ call.out.result.RequeueAfter = deleted.err.after
            /\ deleted.err.kind \notin {"retryable", "nil"} =>
                /\ call.out.result.err # NoErr
                /\ call.out.result.RequeueAfter = 0
            /\ (deleted.err = NoErr /\ (call.f.update = NoErr \/ ~call.stored.finalized)) =>
                call.out.result = Done

\* C18: a validation error of the spec is not retried: the reconciler
\* returns no error and no RequeueAfter, and the rejection is written as a
\* status condition with status False.
C18_ValidationErrorNotRetried ==
    /\ (/\ call.kind = "envoy"
        /\ call.getErr = NoErr
        /\ ~call.stored.deleting
        /\ call.f.validate # NoErr) =>
            /\ call.out.result = Done
            /\ call.out.writes # <<>>
    /\ (/\ call.kind = "gateway"
        /\ call.getErr = NoErr
        /\ ~call.stored.deleting
        /\ call.stored.invalid # {}
        /\ call.f.statusUpdate = NoErr) =>
            /\ call.out.result = Done
            /\ call.out.ready = "False"

\* C19: validating a Gateway whose GatewayClass is missing or not admitted
\* gives a retryable error with a backoff above zero, the reconcile is
\* requeued after that backoff, and the status says the Gateway is not ready.
C19_MissingClassRequeued ==
    (/\ call.kind = "gateway"
     /\ call.getErr = NoErr
     /\ ~call.stored.deleting
     /\ (call.class.get # NoErr \/ ~call.class.admitted)
     /\ call.f.statusUpdate = NoErr) =>
        /\ call.out.validation.kind = "retryable"
        /\ call.out.validation.after > 0
        /\ call.out.result.RequeueAfter = call.out.validation.after
        /\ call.out.ready = "False"

\* C20: when Get says the object is not found, the Envoy, Gateway and
\* Namespace reconcilers return the empty result without an error, call no
\* event handler and write nothing; EnsureServiceDeleted returns no error when
\* the Service is not found at Get or at Delete.
C20_NotFoundIsConverged ==
    /\ (call.kind \in {"envoy", "gateway", "namespace"} /\ call.getErr = StatusNotFound) =>
            /\ call.out.result = Done
            /\ call.out.events = <<>>
            /\ call.out.writes = <<>>
    /\ (/\ DeletesService
        /\ \/ call.f.svcGet = StatusNotFound
           \/ call.f.svcGet = NoErr /\ call.f.owned /\ call.f.svcWrite = StatusNotFound) =>
            /\ EnsureServiceDeleted(call.f).err = NoErr
            /\ "Delete Service" \notin Range(call.out.writes)
            /\ (call.f.update = NoErr \/ ~call.stored.finalized) => call.out.result = Done

\* An Envoy being deleted whose Service was found at Get and gone at Delete.
C20_Witness_GoneAtDelete ==
    /\ DeletesService
    /\ call.f.svcGet = NoErr
    /\ call.f.owned
    /\ call.f.svcWrite = StatusNotFound
    /\ call.f.update = NoErr
    /\ call.out.result = Done

\* C21: when the first Get fails with an error other than NotFound, the
\* Envoy, Gateway and Namespace reconcilers return an error, call neither
\* OnAdd nor OnDelete and write nothing.
C21_GetErrorRequeues ==
    (/\ call.kind \in {"envoy", "gateway", "namespace"}
     /\ call.getErr # NoErr
     /\ ~IsNotFound(call.getErr)) =>
        /\ call.out.result.err # NoErr
        /\ call.out.events = <<>>
        /\ call.out.writes = <<>>
\* The last step was a run of EnsureService.
Ensured == svcLast # <<>> /\ svcLast[1].op = "ensure"

\* C22: EnsureService creates the desired Service when none exists, updates
\* an owned Service only when the comparison of the publishing type reports
\* a difference from the desired Service, and issues no Create and no Update
\* when run again after it has succeeded for the unchanged Envoy.
C22_EnsureServiceIdempotent ==
    Ensured =>
        LET last == svcLast[1]
            envoy == svcEnvoy[1]
            desired == DesiredService(envoy)
        IN  /\ (last.before = <<>> /\ last.out.err = NoErr) =>
                /\ last.out.writes = <<"Create Service">>
                /\ svcStore = <<ServerAssigned(desired)>>
            /\ "Create Service" \in Range(last.out.writes) => last.before = <<>>
            /\ "Update Service" \in Range(last.out.writes) =>
                /\ last.before # <<>>
                /\ last.before[1].owner = ownerLabels(envoy)
                /\ ServiceChanged(ComparisonOf(envoy), last.before[1], desired).changed
            /\ last.afterSuccess => last.out.writes = <<>>

\* EnsureService has created the Service of a LoadBalancerService Envoy, the
\* API server has assigned its node ports, and the next run finds it.
C22_Witness_RerunAfterCreate ==
    /\ Ensured
    /\ svcLast[1].afterSuccess
    /\ svcLast[1].f.svcGet = NoErr
    /\ svcLast[1].f.owned
    /\ svcEnvoy[1].Type = "LoadBalancerService"
    /\ svcStore[1].Ports[1].NodePort # 0
    /\ svcLast[1].out = [err |-> NoErr, writes |-> <<>>]
\* C23: each of ClusterIPServiceChanged, LoadBalancerServiceChanged and
\* NodePortServiceChanged is a fixed point: when it returns (updated, true)
\* for (current, expected), it returns changed = false for (updated, expected).
C23_ComparisonFixedPoint ==
    cmp.stage = "recompared" =>
        /\ cmp.first.changed
        /\ ~cmp.second.changed
        /\ ~cmp.second.panic

\* Two fields of a port differ and LoadBalancerServiceChanged is applied twice.
C23_Witness_TwoPortFieldsResolved ==
    /\ cmp.stage = "recompared"
    /\ cmp.fn = "LoadBalancer"
    /\ cmp.mutations = {"portName", "targetPort"}
    /\ cmp.first.updated[1].Ports = cmp.expected.Ports
    /\ cmp.second = Unchanged

\* What each comparison is said to look at.
PortsDiffer(fn, current, expected) ==
    \/ Len(current.Ports) # Len(expected.Ports)
    \/ \E i \in 1..Len(current.Ports) :
        \/ PortFieldsDiffer(current.Ports[i], expected.Ports[i])
        \/ fn = "NodePort" /\ current.Ports[i].NodePort # expected.Ports[i].NodePort
        \/ fn = "ClusterIP" /\ current.Ports[i] # expected.Ports[i]

OwnedFieldsDiffer(fn, current, expected) ==
    \/ PortsDiffer(fn, current, expected)
    \/ current.Selector # expected.Selector
    \/ current.SessionAffinity # expected.SessionAffinity
    \/ current.Type # expected.Type
    \/ /\ fn \in {"LoadBalancer", "NodePort"}
       /\ \/ current.ExternalTrafficPolicy # expected.ExternalTrafficPolicy
          \/ current.Annotations # expected.Annotations

\* C24: a comparison reports changed exactly when a field it owns differs
\* (never for clusterIP or healthCheckNodePort, and for a port's nodePort only
\* in NodePortServiceChanged), and returns (nil, false) otherwise.
C24_ChangedForOwnedFields ==
    cmp.stage \in {"compared", "recompared"} =>
        IF OwnedFieldsDiffer(cmp.fn, cmp.current, cmp.expected)
        THEN cmp.first.changed /\ cmp.first.updated # <<>>
        ELSE cmp.first = Unchanged
----------------------------------------------------------------------------
\* Claims about validation.

\* The elements of a list are pairwise distinct.
PairwiseDistinct(s) == \A i, j \in 1..Len(s) : i # j => s[i] # s[j]

\* C25: containerPorts accepts a port list exactly when its port numbers are
\* pairwise distinct, its port names are pairwise distinct and ports named
\* http and https are both present; every other list is rejected.
C25_ContainerPortsAccepted ==
    (vcall # <<>> /\ vcall[1].kind = "containerPorts") =>
        LET ports == vcall[1].ports
            numbers == [i \in 1..Len(ports) |-> ports[i].PortNumber]
            names == [i \in 1..Len(ports) |-> ports[i].Name]
        IN  vcall[1].out = NoErr <=>
                /\ PairwiseDistinct(numbers)
                /\ PairwiseDistinct(names)
                /\ "http" \in Range(names)
                /\ "https" \in Range(names)

\* Two ports named http on distinct numbers, after https: a duplicate name.
C25_Witness_DuplicateName ==
    /\ vcall # <<>>
    /\ vcall[1].kind = "containerPorts"
    /\ vcall[1].ports = <<ContainerPort("https", 8443), ContainerPort("http", 8080),
                          ContainerPort("http", 9001)>>
    /\ vcall[1].out = Plain("duplicate container port name")

\* C26: two listeners with the same port are rejected with the error for a
\* non-unique port, which is not retryable; no listener and more than two
\* listeners are rejected as well.
C26_DuplicatePortRejected ==
    (vcall # <<>> /\ vcall[1].kind = "listeners") =>
        LET listeners == vcall[1].listeners
            out == vcall[1].out
        IN  /\ (Len(listeners) = 2 /\ listeners[1].Port = listeners[2].Port) =>
                /\ out = Plain("invalid listeners, port is non-unique")
                /\ NewMaybeRetryableAggregate(<<Wrap(out)>>).kind # "retryable"
            /\ (Len(listeners) = 0 \/ Len(listeners) > 2) =>
                /\ out = Plain("invalid number of listeners")
                /\ NewMaybeRetryableAggregate(<<Wrap(out)>>).kind # "retryable"

\* An HTTP and an HTTPS listener, both on port 1.
C26_Witness_SamePortTwice ==
    /\ vcall # <<>>
    /\ vcall[1].kind = "listeners"
    /\ vcall[1].listeners = <<Listener(1, "HTTP", "nil", "HTTPRoute"),
                              Listener(1, "HTTPS", "certificate", "HTTPRoute")>>
    /\ vcall[1].out = Plain("invalid listeners, port is non-unique")

\* C27: listeners with protocol HTTP, HTTPS or TLS are accepted: one HTTP
\* listener, or an HTTP and an HTTPS listener on distinct ports, validate, and
\* the protocol test rejects only a protocol that is none of the three.
C27_SupportedProtocolsAccepted ==
    (vcall # <<>> /\ vcall[1].kind = "listeners") =>
        LET listeners == vcall[1].listeners
            out == vcall[1].out
        IN  /\ listeners = <<Listener(1, "HTTP", "nil", "HTTPRoute")>> => out = NoErr
            /\ listeners = <<Listener(1, "HTTP", "nil", "HTTPRoute"),
                             Listener(2, "HTTPS", "certificate", "HTTPRoute")>> =>
                    out = NoErr
            /\ out = Plain("invalid listener protocol") =>
                    \E i \in 1..Len(listeners) :
                        listeners[i].Protocol \notin {"HTTP", "HTTPS", "TLS"}

\* C28: GatewayClass validation returns nil exactly when the controller is
\* Contour's and parametersRef is unspecified.
C28_GatewayClassValid ==
    (vcall # <<>> /\ vcall[1].kind = "gatewayclass") =>
        (vcall[1].out = NoErr <=>
            /\ vcall[1].gc.Controller = ContourGatewayClass
            /\ vcall[1].gc.ParametersRef = Nil)

\* Another Envoy, one of a different name, is in the namespace of the Envoy.
AnotherInNamespace(items, envoy) ==
    \E i \in 1..Len(items) :
        items[i][2] = envoy.Namespace /\ items[i][1] # envoy.Name

\* C29: validation of an Envoy fails whenever another Envoy exists in its
\* namespace and the rule never rejects an Envoy that is alone in its
\* namespace, whatever exists in other namespaces; the reconciler adds no
\* finalizer and creates no Service while a second Envoy exists.
C29_OneEnvoyPerNamespace ==
    (vcall # <<>> /\ vcall[1].kind = "envoy" /\ vcall[1].listErr = NoErr) =>
        LET envoy == vcall[1].envoy
            out == vcall[1].out
        IN  IF AnotherInNamespace(vcall[1].items, envoy)
            THEN /\ out # NoErr
                 /\ vcall[1].reconcile.result.err # NoErr
                 /\ vcall[1].reconcile.writes = <<>>
            ELSE /\ out # Plain("other envoys exist in namespace")
                 /\ out = containerPorts(envoy.ContainerPorts, {}, {})
                 /\ out = NoErr => vcall[1].reconcile.writes # <<>>

\* The list has the Envoy itself and a second one of its namespace.
C29_Witness_SecondInNamespace ==
    /\ vcall # <<>>
    /\ vcall[1].kind = "envoy"
    /\ vcall[1].listErr = NoErr
    /\ vcall[1].envoy.Name = "envoy-1"
    /\ vcall[1].envoy.Namespace = "ns-1"
    /\ ~vcall[1].envoy.finalized
    /\ vcall[1].items = << <<"envoy-1", "ns-1">>, <<"envoy-2", "ns-1">> >>
    /\ vcall[1].out = Plain("other envoys exist in namespace")
    /\ vcall[1].reconcile.writes = <<>>
\* C30: after ensureEnvoyDeleted has returned no error and the finalizer is
\* removed, the store holds no Service with the Envoy's owner labels, whatever
\* the publishing type.
C30_NoServiceAfterDeletion ==
    (/\ svcLast # <<>>
     /\ svcLast[1].op = "delete"
     /\ svcLast[1].out.err = NoErr
     /\ ~svcEnvoy[1].finalized) =>
        \/ svcStore = <<>>
        \/ svcStore[1].owner # ownerLabels(svcEnvoy[1])
----------------------------------------------------------------------------
\* Claims about the order of the steps of the reconcilers.

\* An Envoy with a deletion timestamp is reconciled and its Service is found
\* with the owner labels.
DeletesOwnedService ==
    /\ call.kind = "envoy"
    /\ call.getErr = NoErr
    /\ call.stored.deleting
    /\ call.f.svcGet = NoErr
    /\ call.f.owned

\* C31: for an Envoy with a deletion timestamp OnDelete is delivered, then the
\* owned Service is deleted and only then the finalizer removed; when the
\* deletion of the Service fails the finalizer is not removed.
C31_ServiceDeletedBeforeFinalizer ==
    /\ (call.kind = "envoy" /\ call.getErr = NoErr /\ call.stored.deleting) =>
            call.out.events = <<"OnDelete">>
    /\ DeletesOwnedService =>
        /\ "Update Envoy finalizers" \in Range(call.out.writes) =>
                \/ call.f.svcWrite = StatusNotFound
                \/ call.out.writes = <<"Delete Service", "Update Envoy finalizers">>
        /\ call.f.svcWrite \notin {NoErr, StatusNotFound} =>
                "Update Envoy finalizers" \notin Range(call.out.writes)
\* A run wrote the Service.
ServiceWritten(writes) ==
    "Create Service" \in Range(writes) \/ "Update Service" \in Range(writes)

\* A Service of another owner was in the store before the last run.
ForeignBefore ==
    /\ svcLast[1].before # <<>>
    /\ svcLast[1].before[1].owner # ownerLabels(svcEnvoy[1])

\* The reconcile that adds the finalizer writes no Service, and a Service is
\* written only by a reconcile that found the finalizer.
NoServiceWithoutFinalizer ==
    (svcLast # <<>> /\ svcLast[1].op \in {"finalize", "ensure"}) =>
        /\ svcLast[1].op = "finalize" =>
            /\ ~ServiceWritten(svcLast[1].out.writes)
            /\ svcStore = svcLast[1].before
        /\ ServiceWritten(svcLast[1].out.writes) => svcLast[1].op = "ensure"

\* The second of two successful reconciles, the first of which added the
\* finalizer.
SecondReconcile ==
    /\ Ensured
    /\ svcLast[1].afterFinalize
    /\ svcLast[1].out.err = NoErr

\* C32 (as stated): the Service is never created or updated for an Envoy
\* without the finalizer, and a valid Envoy has the finalizer and the desired
\* Service after two reconciles.
C32_FinalizerThenService ==
    /\ NoServiceWithoutFinalizer
    /\ SecondReconcile =>
        /\ svcEnvoy[1].finalized
        /\ svcStore = <<ServerAssigned(DesiredService(svcEnvoy[1]))>>

\* C32 (amended): the same, the desired Service being there after two
\* reconciles when no Service of another owner has the name.
C32_FinalizerThenServiceUnlessForeign ==
    /\ NoServiceWithoutFinalizer
    /\ (SecondReconcile /\ ~ForeignBefore) =>
        /\ svcEnvoy[1].finalized
        /\ svcStore = <<ServerAssigned(DesiredService(svcEnvoy[1]))>>

\* The first reconcile added the finalizer, the second created the Service.
C32_Witness_CreatedBySecondReconcile ==
    /\ SecondReconcile
    /\ svcRuns = 2
    /\ svcLast[1].before = <<>>
    /\ svcLast[1].out.writes = <<"Create Service">>
    /\ svcEnvoy[1].Type = "NodePortService"
\* The last run fetched a Service that lacks the owner labels of the Envoy.
FetchedForeign ==
    /\ svcLast # <<>>
    /\ svcLast[1].op \in {"ensure", "delete"}
    /\ svcLast[1].f.svcGet = NoErr
    /\ ForeignBefore

\* C33: EnsureService and EnsureServiceDeleted leave a Service without the
\* owner labels of the Envoy as it is and return success, and an update by
\* EnsureService keeps the owner labels of the Service.
C33_UnownedServiceUntouched ==
    /\ FetchedForeign =>
        /\ svcStore = svcLast[1].before
        /\ ~ServiceWritten(svcLast[1].out.writes)
        /\ "Delete Service" \notin Range(svcLast[1].out.writes)
        /\ k8s_envoy_EnsureService(svcLast[1].f).err = NoErr
        /\ EnsureServiceDeleted(svcLast[1].f).err = NoErr
        /\ svcLast[1].op = "ensure" => svcLast[1].out.err = NoErr
    /\ (Ensured /\ "Update Service" \in Range(svcLast[1].out.writes)) =>
        /\ svcStore[1].owner = svcLast[1].before[1].owner
        /\ svcStore[1].owner = ownerLabels(svcEnvoy[1])

\* The Envoy publishing through a load balancer was deleted while a Service
\* of another owner had the name; the run succeeded.
C33_Witness_ForeignKeptOnDeletion ==
    /\ FetchedForeign
    /\ svcLast[1].op = "delete"
    /\ svcEnvoy[1].Type = "LoadBalancerService"
    /\ svcLast[1].out.err = NoErr
    /\ svcStore # <<>>
    /\ ~svcEnvoy[1].finalized
\* The number of times s occurs in the list.
Occurrences(list, s) == Cardinality({i \in DOMAIN list : list[i] = s})

\* EnsureFinalizer, EnsureFinalizerRemoved or ensureFinalizer, called on the
\* finalizers of the stored object: an Update is issued exactly when the
\* finalizer is not as wanted, a second call issues none, and the finalizers
\* of others stay as they are.
FinalizerCallIdempotent(r, finalizer, wanted) ==
    /\ r.calls = IF ContainsString(obj[1].Finalizers, finalizer) # wanted THEN 1 ELSE 0
    /\ r.calls = 0 => r.Finalizers = obj[1].Finalizers
    /\ r.err = NoErr =>
        /\ ContainsString(r.Finalizers, finalizer) = wanted
        /\ Occurrences(r.Finalizers, finalizer) <= 1
    /\ RemoveString(r.Finalizers, finalizer) = RemoveString(obj[1].Finalizers, finalizer)

\* C34: the finalizer functions issue an Update only when the finalizer is
\* not as wanted and none when called again, the finalizer of the controller
\* is on a reconciled object at most once, and a reconcile keeps the
\* finalizers of others in their order.
C34_FinalizerIdempotent ==
    obj # <<>> =>
        /\ Occurrences(obj[1].Finalizers, ControllerFinalizer(obj[1].kind)) <= 1
        /\ \A updateErr \in {NoErr, StatusTimeout} :
            /\ FinalizerCallIdempotent(
                    k8s_envoy_EnsureFinalizer(obj[1].Finalizers, updateErr),
                    EnvoyFinalizer, TRUE)
            /\ FinalizerCallIdempotent(
                    k8s_envoy_EnsureFinalizerRemoved(obj[1].Finalizers, updateErr),
                    EnvoyFinalizer, FALSE)
            /\ FinalizerCallIdempotent(
                    ensureFinalizer(obj[1].Finalizers, updateErr),
                    GatewayFinalizer, TRUE)
            /\ k8s_envoy_EnsureFinalizer(
                    k8s_envoy_EnsureFinalizer(obj[1].Finalizers, NoErr).Finalizers,
                    updateErr).calls = 0
            /\ k8s_envoy_EnsureFinalizerRemoved(
                    k8s_envoy_EnsureFinalizerRemoved(obj[1].Finalizers, NoErr).Finalizers,
                    updateErr).calls = 0
            /\ ensureFinalizer(
                    ensureFinalizer(obj[1].Finalizers, NoErr).Finalizers,
                    updateErr).calls = 0
        /\ objLast # <<>> =>
            /\ objLast[1].updates \in {0, 1}
            /\ objLast[1].updates = 0 => obj[1].Finalizers = objLast[1].before.Finalizers
            /\ RemoveString(obj[1].Finalizers, ControllerFinalizer(obj[1].kind))
                    = RemoveString(objLast[1].before.Finalizers,
                                   ControllerFinalizer(obj[1].kind))

\* The finalizer was removed from between two finalizers of others by the
\* reconcile of a deleted Envoy.
C34_Witness_RemovedBetweenOthers ==
    /\ obj # <<>> /\ objLast # <<>>
    /\ obj[1].kind = "Envoy"
    /\ objLast[1].before.Finalizers =
            <<"foregroundDeletion", EnvoyFinalizer, "example.com/hold">>
    /\ objLast[1].updates = 1
    /\ obj[1].Finalizers = <<"foregroundDeletion", "example.com/hold">>
\* The last reconcile put the finalizer on the Gateway.
GatewayFinalizerAdded ==
    /\ obj # <<>> /\ objLast # <<>>
    /\ obj[1].kind = "Gateway"
    /\ ContainsString(obj[1].Finalizers, GatewayFinalizer)
    /\ ~ContainsString(objLast[1].before.Finalizers, GatewayFinalizer)

\* A Gateway with the finalizer has a deletion timestamp.
GatewayHeldByFinalizer ==
    /\ obj # <<>>
    /\ obj[1].kind = "Gateway"
    /\ obj[1].deleting
    /\ ContainsString(obj[1].Finalizers, GatewayFinalizer)

\* The Gateway no longer has the finalizer.
GatewayReleased ==
    /\ obj # <<>>
    /\ obj[1].kind = "Gateway"
    /\ ~ContainsString(obj[1].Finalizers, GatewayFinalizer)

\* C35: a Gateway gets the finalizer only in a reconcile that found it valid,
\* and a Gateway with the finalizer that is marked for deletion has the
\* finalizer removed by the reconciler in the end.
C35_GatewayFinalizerRemoved ==
    /\ [](GatewayFinalizerAdded => (objLast[1].before.valid /\ ~objLast[1].before.deleting))
    /\ (GatewayHeldByFinalizer ~> GatewayReleased)
\* The conditions are what SyncGateway wants for the verdict: no Scheduled
\* condition and one Ready condition that says the verdict.
StatusAsDesired(conditions, valid) ==
    /\ \A i \in DOMAIN conditions : conditions[i].Type # GatewayConditionScheduled
    /\ Cardinality({i \in DOMAIN conditions :
                        conditions[i].Type = GatewayConditionReady}) = 1
    /\ \E i \in DOMAIN conditions :
            conditions[i] = [Type |-> GatewayConditionReady,
                             Status |-> IF valid THEN "True" ELSE "False"]

\* The last reconcile was of a Gateway without deletion timestamp.
GatewaySynced ==
    /\ obj # <<>> /\ objLast # <<>>
    /\ obj[1].kind = "Gateway"
    /\ ~objLast[1].before.deleting

ObjectFound ==
    /\ call.kind \in {"envoy", "gateway", "namespace"}
    /\ call.getErr = NoErr

\* The object the last call found has a deletion timestamp.
FoundDeleting ==
    IF call.kind = "namespace" THEN call.stored ELSE call.stored.deleting

\* C37: a Reconcile of the Envoy, Gateway or Namespace reconciler that finds
\* its object calls one event handler, OnDelete for an object with a deletion
\* timestamp and OnAdd otherwise, also when the object fails validation.
C37_OneCallbackPerReconcile ==
    ObjectFound =>
        /\ call.out.events = IF FoundDeleting THEN <<"OnDelete">> ELSE <<"OnAdd">>
        /\ (call.kind = "envoy" /\ ~FoundDeleting /\ call.f.validate # NoErr) =>
                call.out.events = <<"OnAdd">>
        /\ (call.kind = "gateway" /\ ~FoundDeleting /\ call.out.validation # NoErr) =>
                call.out.events = <<"OnAdd">>

\* An Envoy that fails validation was handed to OnAdd, and Reconcile failed.
C37_Witness_InvalidEnvoyForwarded ==
    /\ ObjectFound
    /\ call.kind = "envoy"
    /\ ~call.stored.deleting
    /\ call.f.validate # NoErr
    /\ call.out.events = <<"OnAdd">>
    /\ call.out.result.err # NoErr
    /\ call.out.writes = <<>>
\* DesiredService was built for an Envoy that validation accepted.
ServiceBuilt == vcall # <<>> /\ vcall[1].kind = "desiredService"

\* The container port of the Envoy with the name is published once, as the
\* Service port with the number.
Published(name, port) ==
    /\ Cardinality({i \in DOMAIN vcall[1].svc.Ports :
                        vcall[1].svc.Ports[i].Name = name}) = 1
    /\ \A i \in DOMAIN vcall[1].svc.Ports :
        vcall[1].svc.Ports[i].Name = name =>
            /\ vcall[1].svc.Ports[i].Port = port
            /\ \E j \in DOMAIN vcall[1].envoy.ContainerPorts :
                vcall[1].envoy.ContainerPorts[j] =
                    ContainerPort(name, vcall[1].svc.Ports[i].TargetPort)

\* The Service port with the name has the node port.
NodePortOf(name, nodePort) ==
    \A i \in DOMAIN vcall[1].svc.Ports :
        vcall[1].svc.Ports[i].Name = name => vcall[1].svc.Ports[i].NodePort = nodePort

\* C38: for a validated Envoy DesiredService publishes the http container
\* port as port 80 and the https one as port 443, once each; for the NodePort
\* type the http port has node port 30080 and the https port 30443, in
\* whatever order the container ports are listed; the Service has the owner
\* labels of the Envoy.
C38_DesiredServicePorts ==
    ServiceBuilt =>
        /\ Len(vcall[1].svc.Ports) = 2
        /\ Published("http", EnvoyServiceHTTPPort)
        /\ Published("https", EnvoyServiceHTTPSPort)
        /\ vcall[1].envoy.Type = "NodePortService" =>
            /\ NodePortOf("http", EnvoyNodePortHTTPPort)
            /\ NodePortOf("https", EnvoyNodePortHTTPSPort)
        /\ vcall[1].svc.owner = ownerLabels(vcall[1].envoy)
\* C39: NodePortServiceChanged returns for every pair of Services, and
\* reports changed when the current Service has fewer or more ports than the
\* expected one.
C39_NodePortComparisonTotal ==
    (cmp.stage \in {"compared", "recompared"} /\ cmp.fn = "NodePort") =>
        /\ ~cmp.first.panic
        /\ Len(cmp.current.Ports) # Len(cmp.expected.Ports) =>
            /\ cmp.first.changed
            /\ cmp.first.updated # <<>>
\* The last step was a rule with a complete forwarding target whose service
\* is not in the cache.
ResolutionFailed ==
    /\ step.kind = "rule"
    /\ ~AllResolvable(step.rule, step.route.Namespace)

\* Every Route of d is a Route of the same VirtualHost of e.
DagKept(d, e) ==
    \A h \in DOMAIN d : h \in DOMAIN e /\ Range(d[h]) \subseteq Range(e[h])

\* C40: when the service of a forwarding target cannot be resolved,
\* computeHTTPRoute returns: the rule attaches nothing and no later rule of
\* the HTTPRoute is processed, what earlier rules attached stays in the DAG,
\* and Run goes on with the next HTTPRoute.
C40_FailedResolutionEndsRoute ==
    /\ [](ResolutionFailed =>
            /\ step.outcome = "return"
            /\ step.routes = <<>>
            /\ pdag = step.before
            /\ ~cur.started
            /\ cur.idx >= 2 /\ validRoutes[cur.idx - 1] = step.route
            /\ cur.idx <= Len(validRoutes) => ENABLED ComputeStart)
    /\ [][ResolutionFailed =>
            /\ pdag' = pdag
            /\ step'.kind \in {"route", "done"}
            /\ cur.idx <= Len(validRoutes) =>
                    (step'.kind = "route" /\ cur'.started /\ cur'.idx = cur.idx)]_vars
    /\ [][pc = "compute" => DagKept(pdag, pdag')]_vars

\* The second rule of an HTTPRoute failed to resolve its service after the
\* first had attached a Route, and another HTTPRoute is still to be processed.
C40_Witness_LaterRuleFailed ==
    /\ ResolutionFailed
    /\ step.before # dagAtStart
    /\ pdag = step.before
    /\ cur.idx = 2
    /\ Len(validRoutes) = 2
====
